---- MODULE Spec2Model ----
(***************************************************************************)
(* Model of the Matrx server manager (servers/server-manager, the file     *)
(* src/unnamed/part_007): the token store and the auth middleware, the     *)
(* deployment registry, the build pipeline, the rollback manager and the   *)
(* image retention policy.                                                 *)
(*                                                                         *)
(* Every handler of the server runs to completion before the next one      *)
(* starts: all file accesses are synchronous and every subprocess is run   *)
(* with execSync.  One action of the model is therefore one whole request  *)
(* handler, from the auth middleware to the response.                      *)
(*                                                                         *)
(* Encodings.  Instance names are sequences of characters.  Image tags are *)
(* strings.  Raw bearer tokens, token hashes, token ids and timestamps are *)
(* integers; the hash of a raw token is an injective map into a range      *)
(* disjoint from the raw tokens.  Time is counted in days.                 *)
(***************************************************************************)
EXTENDS Integers, Sequences, FiniteSets, TLC

VARIABLES
  envToken,    \* process.env.MCP_BEARER_TOKEN of the running process (0 = unset)
  tokens,      \* tokens.json: the sequence store.tokens of TokenRecords
  nextTok,     \* number of random token values drawn so far (randomHex)
  revoked,     \* history: hashes of the tokens a delete request removed
  instances,   \* deployments.json: config.instances, name -> InstanceRecord
  dirs,        \* /srv/apps/<name>/: docker-compose.yml and .env per instance
  containers,  \* container runtime: names n whose ship-n / db-n containers exist
  images,      \* container runtime: tag of matrx-ship -> image id
  nextImg,     \* number of images built so far (a build yields a new image id)
  builds,      \* build-history.json: history.builds, newest first
  head,        \* HEAD commit of the source checkout
  now,         \* the wall clock, in days
  cmds,        \* the container commands the last handler ran
  resp,        \* the response of the last handler
  loop,        \* the event loop: the handlers accepted and not yet returned
  client,      \* the programs that call the servers: the ship CLI, the dashboard
  backups      \* /srv/apps/backups/<name>/: file stamp -> size of each .sql file

tokenVars == <<envToken, tokens, nextTok, revoked>>
fleetVars == <<instances, dirs, containers>>
buildVars == <<images, nextImg, builds>>
vars == <<envToken, tokens, nextTok, revoked, instances, dirs, containers,
          images, nextImg, builds, head, now, cmds, resp, loop, client,
          backups>>

----------------------------------------------------------------------------
(* Bounds of the model *)

MaxClock == 9
MaxImg == 4
MaxTok == 3
MaxBuilds == 4
MaxRollbacks == 2
MaxRoleBuilds == 2
MaxHead == 2
MaxBackups == 2
MaxToasts == 3

(* Program constants *)

ONE_WEEK == 7
ONE_MONTH == 30

(* Modelling constants *)

Null == -1            \* JSON null in an integer field
NoCred == 0           \* no Authorization header / unset environment variable
BootRaw == 501          \* the value of MCP_BEARER_TOKEN when it is set
BogusRaw == 502         \* a bearer value that was never issued
RawBase == 510         \* generated raw tokens are RawBase + k
HashBase == 1000      \* sha256 modelled as r |-> HashBase + r
BuildDuration == 1    \* a docker build takes one clock unit
IdBase == 100         \* token ids are IdBase + k
InvalidParams == -32602   \* the JSON-RPC code for arguments a tool schema rejects

Roles == {"admin", "deployer", "viewer"}
Labels == {"ci"}
BootLabel == "Admin (auto-imported from MCP_BEARER_TOKEN)"

Min(S) == CHOOSE x \in S : \A y \in S : x <= y
Range(s) == {s[i] : i \in 1..Len(s)}
Remove(f, k) == [x \in (DOMAIN f) \ {k} |-> f[x]]
EmptyMap == [x \in {} |-> 0]

----------------------------------------------------------------------------
(* TOKEN STORE *)

hashToken(token) == HashBase + token

RawTokens == {BootRaw, BogusRaw} \cup {RawBase + k : k \in 1..(MaxTok + 1)}
HashValues == {hashToken(r) : r \in RawTokens}

\* store.tokens.find((t) => t.token_hash === hash): index of the first match, 0 if none
findByHash(store, hash) ==
  LET idx == {i \in 1..Len(store) : store[i].token_hash = hash}
  IN IF idx = {} THEN 0 ELSE Min(idx)

\* the mutant looks the presented value up without hashing it
verifyToken_plain(store, bearerToken, t) ==
  IF bearerToken = NoCred THEN [entry |-> Null, store |-> store]
  ELSE LET i == findByHash(store, bearerToken)
       IN IF i = 0 THEN [entry |-> Null, store |-> store]
          ELSE [entry |-> i, store |-> [store EXCEPT ![i].last_used_at = t]]

\* verifyToken: the index of the matching record (Null on a miss) and the
\* store as saved afterwards (last_used_at of the match is updated)
verifyToken(store, bearerToken, t) ==
  IF bearerToken = NoCred THEN [entry |-> Null, store |-> store]
  ELSE LET i == findByHash(store, hashToken(bearerToken))
       IN IF i = 0 THEN [entry |-> Null, store |-> store]
          ELSE [entry |-> i, store |-> [store EXCEPT ![i].last_used_at = t]]

\* the mutant imports the environment token on every boot
initTokenStore_dup(store, env, t, id) ==
  IF env = NoCred THEN store
  ELSE Append(store, [id |-> id, token_hash |-> hashToken(env), label |-> BootLabel,
                      role |-> "admin", created_at |-> t, last_used_at |-> Null])

\* initTokenStore: the store after the boot-time import of MCP_BEARER_TOKEN
initTokenStore(store, env, t, id) ==
  IF env = NoCred THEN store
  ELSE IF \E i \in 1..Len(store) : store[i].token_hash = hashToken(env) THEN store
  ELSE Append(store, [id |-> id, token_hash |-> hashToken(env), label |-> BootLabel,
                      role |-> "admin", created_at |-> t, last_used_at |-> Null])

----------------------------------------------------------------------------
(* AUTH MIDDLEWARE *)

\* the mutant lets a request with an unknown token through
authMiddleware_lax(cred) ==
  IF envToken = NoCred THEN [status |-> 200, role |-> "", label |-> "", store |-> tokens]
  ELSE LET v == verifyToken(tokens, cred, now)
       IN IF cred = NoCred \/ v.entry = Null
          THEN [status |-> IF cred = NoCred THEN 401 ELSE 200,
                role |-> "", label |-> "", store |-> tokens]
          ELSE [status |-> 200, role |-> v.store[v.entry].role,
                label |-> v.store[v.entry].label, store |-> v.store]

\* authMiddleware: status 401 or 200 (next), the role and label attached to
\* the request ("" when none is attached), and the token store afterwards
authMiddleware(cred) ==
  IF envToken = NoCred THEN [status |-> 200, role |-> "", label |-> "", store |-> tokens]
  ELSE IF cred = NoCred THEN [status |-> 401, role |-> "", label |-> "", store |-> tokens]
  ELSE LET v == verifyToken(tokens, cred, now)
       IN IF v.entry = Null
          THEN [status |-> 401, role |-> "", label |-> "", store |-> tokens]
          ELSE [status |-> 200, role |-> v.store[v.entry].role,
                label |-> v.store[v.entry].label, store |-> v.store]

\* the mutant admits every authenticated role
requireRole_any(roles, tokenRole) == TRUE

\* requireRole(...roles): TRUE when the request may proceed
requireRole(roles, tokenRole) ==
  IF tokenRole = "" THEN TRUE ELSE tokenRole \in roles

----------------------------------------------------------------------------
(* CONTAINER RUNTIME: the image tags of the repository matrx-ship *)

LatestTag == "latest"
RollbackTag == "rollback"
PreRollbackTag == "pre-rollback"
NullStr == "<null>"                       \* JSON null in a string field
NoName == <<>>                            \* an absent (or empty) name parameter

\* docker tag matrx-ship:<src> matrx-ship:<dst>; fails when <src> is no image
dockerTag(imgs, src, dst) ==
  IF src \in DOMAIN imgs THEN (dst :> imgs[src]) @@ imgs ELSE imgs

\* the mutant tags the image under construction before the build has finished
dockerBuild_eager(imgs, ok, tag, img) ==
  IF ok THEN (LatestTag :> img) @@ (tag :> img) @@ imgs
  ELSE (LatestTag :> img) @@ imgs

\* docker build -t matrx-ship:latest -t matrx-ship:<tag>: both tags are
\* applied to the new image when the build succeeds, none when it fails
dockerBuild(imgs, ok, tag, img) ==
  IF ok THEN (LatestTag :> img) @@ (tag :> img) @@ imgs ELSE imgs

\* docker rmi matrx-ship:<tag>
dockerRmi(imgs, tag) == Remove(imgs, tag)

----------------------------------------------------------------------------
(* BUILD HISTORY *)

\* generateBuildTag: the tag is a rendering of the start time
generateBuildTag(t) == ToString(t)

BuildTags == {generateBuildTag(t) : t \in 0..(MaxClock + 1)}
ImageTags == {LatestTag, RollbackTag, PreRollbackTag} \cup BuildTags

RollbackRecordTag(tag) == "rollback-to-" \o tag

\* b.tag.startsWith("rollback"), over the tags a record can carry
startsWithRollback(tag) ==
  tag = RollbackTag \/ \E x \in ImageTags : tag = RollbackRecordTag(x)

\* the mutant replaces the newest record instead of prepending
recordBuild_replace(history, entry) ==
  IF history = <<>> THEN <<entry>> ELSE <<entry>> \o Tail(history)

\* a log that is rotated: only the three newest records are kept
recordBuild_capped(history, entry) ==
  SubSeq(<<entry>> \o history, 1, IF Len(history) < 3 THEN Len(history) + 1 ELSE 3)

\* recordBuild: history.builds.unshift(entry)
recordBuild(history, entry) == <<entry>> \o history

\* seq.find(P): the first element that satisfies P, as a set of at most one
findFirst(seq, P(_)) ==
  LET idx == {i \in 1..Len(seq) : P(seq[i])}
  IN IF idx = {} THEN {} ELSE {seq[Min(idx)]}

----------------------------------------------------------------------------
(* RETENTION POLICY *)

successfulBuilds(history) ==
  SelectSeq(history, LAMBDA b : b.success /\ b.tag # "" /\ ~startsWithRollback(b.tag))

\* the mutant keeps the last two builds only
lastThree_two(sb) == {sb[i].tag : i \in 1..(IF Len(sb) < 2 THEN Len(sb) ELSE 2)}

\* successfulBuilds.slice(0, 3)
lastThree(sb) == {sb[i].tag : i \in 1..(IF Len(sb) < 3 THEN Len(sb) ELSE 3)}

\* the mutant keeps every build of the week, not the first one found
weekBuild_all(sb, t, w) ==
  {sb[i] : i \in {j \in 1..Len(sb) : sb[j].timestamp >= t - (w + 1) * ONE_WEEK
                                      /\ sb[j].timestamp < t - w * ONE_WEEK}}

\* successfulBuilds.find(...) over the window of week w before time t
weekBuild(sb, t, w) ==
  findFirst(sb, LAMBDA b : b.timestamp >= t - (w + 1) * ONE_WEEK
                           /\ b.timestamp < t - w * ONE_WEEK)

monthBuild(sb, t, m) ==
  findFirst(sb, LAMBDA b : b.timestamp >= t - (m + 1) * ONE_MONTH
                           /\ b.timestamp < t - m * ONE_MONTH)

\* the mutant starts from an empty set instead of the three fixed tags
tagsToKeep_builds(history, t) ==
  LET sb == successfulBuilds(history)
  IN lastThree(sb)
     \cup UNION {{b.tag : b \in weekBuild(sb, t, w)} : w \in 0..3}
     \cup UNION {{b.tag : b \in monthBuild(sb, t, m)} : m \in 0..2}

\* the set tagsToKeep of cleanupBuildImages at time t
tagsToKeep(history, t) ==
  LET sb == successfulBuilds(history)
  IN {LatestTag, RollbackTag, PreRollbackTag}
     \cup lastThree(sb)
     \cup UNION {{b.tag : b \in weekBuild(sb, t, w)} : w \in 0..3}
     \cup UNION {{b.tag : b \in monthBuild(sb, t, m)} : m \in 0..2}

\* the mutant has the test of the removal loop inverted
cleanupBuildImages_inverted(history, imgs, t, listOk, rmFail) ==
  LET keep == tagsToKeep(history, t)
      allTags == IF listOk THEN DOMAIN imgs ELSE {}
      removed == (allTags \cap keep) \ rmFail
  IN [images |-> [x \in (DOMAIN imgs) \ removed |-> imgs[x]],
      cmds   |-> {<<"rmi", x>> : x \in allTags \cap keep},
      result |-> [kept |-> {x \in keep : x \in allTags}, removed |-> removed,
                  total_tags_before |-> Cardinality(allTags),
                  total_tags_after |-> Cardinality(allTags) - Cardinality(removed),
                  listed |-> listOk, rm_failed |-> (allTags \cap keep) \cap rmFail,
                  preceding |-> [sweep |-> FALSE, removed |-> {}]]]

\* cleanupBuildImages at time t; listOk is the outcome of docker images and
\* rmFail the set of tags whose docker rmi fails.  The fields listed and
\* rm_failed of the result record those two outcomes
cleanupBuildImages(history, imgs, t, listOk, rmFail) ==
  LET keep == tagsToKeep(history, t)
      allTags == IF listOk THEN DOMAIN imgs ELSE {}
      removed == (allTags \ keep) \ rmFail
  IN [images |-> [x \in (DOMAIN imgs) \ removed |-> imgs[x]],
      cmds   |-> {<<"rmi", x>> : x \in allTags \ keep},
      result |-> [kept |-> {x \in keep : x \in allTags}, removed |-> removed,
                  total_tags_before |-> Cardinality(allTags),
                  total_tags_after |-> Cardinality(allTags) - Cardinality(removed),
                  listed |-> listOk, rm_failed |-> (allTags \ keep) \cap rmFail,
                  preceding |-> [sweep |-> FALSE, removed |-> {}]]]

----------------------------------------------------------------------------
(* DEPLOYMENT STORE AND PROVISIONER *)

Lower == {"a", "b"}
Digits == {"0"}
AlNum == Lower \cup Digits

\* /^[a-z0-9][a-z0-9-]*[a-z0-9]$/.test(name)
nameRegex(name) ==
  /\ Len(name) >= 2
  /\ name[1] \in AlNum
  /\ name[Len(name)] \in AlNum
  /\ \A i \in 1..Len(name) : name[i] \in AlNum \cup {"-"}

\* the name check of the command-line client before it calls app_create:
\* the same pattern, or a single character of [a-z0-9]
handleInitNameCheck(name) ==
  nameRegex(name) \/ (Len(name) = 1 /\ name[1] \in AlNum)

DefaultPg == "postgres:17-alpine"
NoKey == ""                               \* no api_key / postgres_image given

\* the mutant reports every started stack as running, whatever the start
\* command returned
statusAfterStart_running(startOk) == "running"

\* the registered status after docker compose up -d: "created" is saved
\* before the start, "running" only after a successful start
statusAfterStart(startOk) == IF startOk THEN "running" ELSE "created"

\* docker ps -a --format '{{.Names}}' | grep -E '^(ship-NAME|db-NAME)$':
\* psOk is whether the listing itself worked; the command fails when grep
\* matches nothing, which is also what it does when the listing fails
dockerPsGrep(conts, name, psOk) ==
  [success |-> psOk /\ name \in conts,
   output |-> IF psOk /\ name \in conts THEN name ELSE NoName]

\* the part of createInstance after its two checks: the instance directory
\* with the stack definition and the secrets file, the registry entry, the
\* start of the stack and the status it leaves
provision(name, display_name, api_key, postgres_image, dbPassword, genKey, startOk, leftover) ==
  LET finalApiKey == IF api_key # NoKey THEN api_key ELSE "sk_ship_" \o genKey
      pg == IF postgres_image # NoKey THEN postgres_image ELSE DefaultPg
      rec == [display_name |-> display_name, api_key |-> finalApiKey,
              db_password |-> dbPassword, postgres_image |-> pg,
              created_at |-> now, status |-> statusAfterStart(startOk)]
  IN [instances |-> (name :> rec) @@ instances,
      dirs |-> (name :> [compose |-> pg,
                         env |-> [POSTGRES_PASSWORD |-> dbPassword,
                                  PROJECT_NAME |-> display_name,
                                  MATRX_SHIP_API_KEY |-> finalApiKey]]) @@ dirs,
      containers |-> IF startOk \/ leftover THEN containers \cup {name} ELSE containers,
      cmds |-> {<<"ps", name>>, <<"up", name>>},
      result |-> [error |-> NullStr, success |-> startOk, name |-> name]]

\* the mutant overwrites an instance that is already registered
createInstance_overwrite(name, display_name, api_key, postgres_image, dbPassword, genKey, startOk, leftover, psOk) ==
  LET nameCheck == dockerPsGrep(containers, name, psOk)
  IN IF nameCheck.success /\ nameCheck.output # NoName /\ name \notin DOMAIN instances
     THEN [instances |-> instances, dirs |-> dirs, containers |-> containers,
           cmds |-> {<<"ps", name>>},
           result |-> [error |-> "container exists", success |-> FALSE, name |-> name]]
     ELSE provision(name, display_name, api_key, postgres_image, dbPassword, genKey,
                    startOk, leftover)

\* createInstance; dbPassword and genKey are the random values drawn, startOk
\* the outcome of docker compose up -d, leftover whether a failed start
\* leaves containers behind, psOk whether the container listing worked.
\* Every result names the instance, as the error text and the success object
\* of the code do
createInstance(name, display_name, api_key, postgres_image, dbPassword, genKey, startOk, leftover, psOk) ==
  LET nameCheck == dockerPsGrep(containers, name, psOk)
  IN IF name \in DOMAIN instances
     THEN [instances |-> instances, dirs |-> dirs, containers |-> containers,
           cmds |-> {}, result |-> [error |-> "already exists", success |-> FALSE, name |-> name]]
     ELSE IF nameCheck.success /\ nameCheck.output # NoName
     THEN [instances |-> instances, dirs |-> dirs, containers |-> containers,
           cmds |-> {<<"ps", name>>},
           result |-> [error |-> "container exists", success |-> FALSE, name |-> name]]
     ELSE provision(name, display_name, api_key, postgres_image, dbPassword, genKey,
                    startOk, leftover)

\* removeInstance; downOk is the outcome of docker compose down
removeInstance(name, delete_data, downOk) ==
  IF name \notin DOMAIN instances
  THEN [instances |-> instances, dirs |-> dirs, containers |-> containers,
        cmds |-> {}, result |-> [error |-> "not found", success |-> FALSE, name |-> name]]
  ELSE
    LET hasCompose == name \in DOMAIN dirs
        gone == IF hasCompose THEN downOk ELSE TRUE
    IN [instances |-> Remove(instances, name),
        dirs |-> IF delete_data THEN Remove(dirs, name) ELSE dirs,
        containers |-> IF gone THEN containers \ {name} ELSE containers,
        cmds |-> {<<IF hasCompose THEN "down" ELSE "rm", name>>},
        result |-> [error |-> NullStr, success |-> TRUE, name |-> name]]

----------------------------------------------------------------------------
(* BUILD PIPELINE *)

\* git rev-parse --short HEAD, as recorded in a BuildRecord
gitCommit(h) == ToString(h)

\* the outcome of docker compose up -d --force-recreate app for every target
restartResults(targets, restartFail) ==
  [t \in targets |->
     IF t \notin DOMAIN instances THEN "not found"
     ELSE IF t \in restartFail \/ t \notin DOMAIN dirs THEN "failed" ELSE "ok"]

\* the mutant restarts only the targets that are not yet running
restartCmds_some(targets) ==
  {<<"recreate", t>> : t \in {x \in targets \cap DOMAIN instances : x \notin containers}}

\* the force-recreate commands run for a target set
restartCmds(targets) == {<<"recreate", t>> : t \in targets \cap DOMAIN instances}

\* the mutant saves the safety net on every run, restart-only runs included
tagRollback_always(imgs, skip_build) == dockerTag(imgs, LatestTag, RollbackTag)

\* if (!skip_build) docker tag matrx-ship:latest matrx-ship:rollback: the
\* safety net of a run that builds; the outcome of the command is ignored
tagRollback(imgs, skip_build) ==
  IF skip_build THEN imgs ELSE dockerTag(imgs, LatestTag, RollbackTag)

\* rebuildInstances({ name, skip_build, triggered_by }); buildOk is the
\* outcome of docker build, restartFail the targets whose restart fails,
\* listOk and rmFail the outcomes inside the retention sweep that follows
rebuildInstances(name, skip_build, triggered_by, buildOk, restartFail, listOk, rmFail) ==
  LET buildTag == generateBuildTag(now)
      started_at == now
      imgs1 == tagRollback(images, skip_build)
      imgs2 == IF skip_build THEN imgs1
               ELSE dockerBuild(imgs1, buildOk, buildTag, nextImg + 1)
      imageId == IF skip_build \/ LatestTag \notin DOMAIN imgs2 THEN Null
                 ELSE imgs2[LatestTag]
      targets == IF name # NoName THEN {name} ELSE DOMAIN instances
      restarts == restartResults(targets, restartFail)
      entry(ok) == [id |-> Len(builds) + 1, tag |-> buildTag, timestamp |-> started_at,
                    git_commit |-> gitCommit(head),
                    image_id |-> IF ok THEN imageId ELSE Null,
                    success |-> ok,
                    error |-> IF ok THEN NullStr ELSE "docker build failed",
                    duration_ms |-> BuildDuration,
                    triggered_by |-> triggered_by,
                    instances_restarted |-> IF ok THEN targets ELSE {}]
      hist == recordBuild(builds, entry(TRUE))
      sweep == cleanupBuildImages(hist, imgs2, now + BuildDuration, listOk, rmFail)
  IN IF ~skip_build /\ ~buildOk
     THEN [images |-> imgs2, nextImg |-> nextImg,
           builds |-> recordBuild(builds, entry(FALSE)),
           containers |-> containers, now |-> now + BuildDuration,
           cmds |-> {<<"tag", RollbackTag>>, <<"build", buildTag>>},
           result |-> [success |-> FALSE, step |-> "build", image_rebuilt |-> FALSE,
                       build_tag |-> NullStr, image_id |-> Null,
                       instances_restarted |-> {}, restarts |-> EmptyMap]]
     ELSE [images |-> IF skip_build THEN imgs2 ELSE sweep.images,
           nextImg |-> IF skip_build THEN nextImg ELSE nextImg + 1,
           builds |-> IF skip_build THEN builds ELSE hist,
           containers |-> containers \cup {t \in targets : restarts[t] = "ok"},
           now |-> IF skip_build THEN now ELSE now + BuildDuration,
           cmds |-> restartCmds(targets)
                    \cup (IF skip_build THEN {}
                          ELSE {<<"tag", RollbackTag>>, <<"build", buildTag>>} \cup sweep.cmds),
           result |-> [success |-> TRUE, step |-> "done", image_rebuilt |-> ~skip_build,
                       build_tag |-> IF skip_build THEN NullStr ELSE buildTag,
                       image_id |-> imageId,
                       instances_restarted |-> targets, restarts |-> restarts]]

----------------------------------------------------------------------------
(* ROLLBACK MANAGER *)

\* the mutant re-tags the target first and saves the safety net afterwards
rollbackTags_late(imgs, tag, retagOk) ==
  IF retagOk THEN dockerTag(dockerTag(imgs, tag, LatestTag), LatestTag, PreRollbackTag)
  ELSE dockerTag(imgs, LatestTag, PreRollbackTag)

\* the two docker tag commands of rollbackBuild, in their order: latest is
\* saved as pre-rollback, then the target is re-tagged as latest
rollbackTags(imgs, tag, retagOk) ==
  LET saved == dockerTag(imgs, LatestTag, PreRollbackTag)
  IN IF retagOk THEN dockerTag(saved, tag, LatestTag) ELSE saved

\* the mutant's inspection succeeds for every tag
inspectImage_lax(imgs, tag) ==
  [success |-> TRUE, output |-> IF tag \in DOMAIN imgs THEN imgs[tag] ELSE Null]

\* docker inspect matrx-ship:<tag> --format '{{.Id}}'
inspectImage(imgs, tag) ==
  [success |-> tag \in DOMAIN imgs,
   output |-> IF tag \in DOMAIN imgs THEN imgs[tag] ELSE Null]

\* the mutant restarts only the instances whose status is running
rollbackTargets_running(config) == {t \in DOMAIN config : config[t].status = "running"}

\* const targets = Object.keys(config.instances): a rollback restarts every
\* registered instance
rollbackTargets(config) == DOMAIN config

\* `Image tag matrx-ship:${tag} not found`
TagNotFound(tag) == "Image tag matrx-ship:" \o tag \o " not found"

\* rollbackBuild(tag); retagOk is the outcome of the re-tag command
rollbackBuild(tag, retagOk, restartFail) ==
  LET unchanged(err) ==
        [images |-> images, builds |-> builds, containers |-> containers, cmds |-> {},
         result |-> [success |-> FALSE, error |-> err, rolled_back_to |-> NullStr,
                     image_id |-> Null, instances_restarted |-> {}]]
      check == inspectImage(images, tag)
      targets == rollbackTargets(instances)
      restarts == [t \in targets |->
                     IF t \in restartFail \/ t \notin DOMAIN dirs THEN "failed" ELSE "ok"]
  IN IF tag = "" THEN unchanged("tag is required")
     ELSE IF ~check.success THEN unchanged(TagNotFound(tag))
     ELSE IF ~retagOk
     THEN [images |-> rollbackTags(images, tag, FALSE), builds |-> builds,
           containers |-> containers, cmds |-> {<<"tag", PreRollbackTag>>},
           result |-> [success |-> FALSE, error |-> "Failed to retag",
                       rolled_back_to |-> NullStr, image_id |-> Null,
                       instances_restarted |-> {}]]
     ELSE [images |-> rollbackTags(images, tag, TRUE),
           builds |-> recordBuild(builds,
                        [id |-> Len(builds) + 1, tag |-> RollbackRecordTag(tag),
                         timestamp |-> now, git_commit |-> "rollback",
                         image_id |-> check.output, success |-> TRUE, error |-> NullStr,
                         duration_ms |-> 0, triggered_by |-> "rollback",
                         instances_restarted |-> targets]),
           containers |-> containers \cup {t \in targets : restarts[t] = "ok"},
           cmds |-> {<<"tag", PreRollbackTag>>, <<"tag", LatestTag>>}
                    \cup {<<"recreate", t>> : t \in targets},
           result |-> [success |-> TRUE, error |-> NullStr, rolled_back_to |-> tag,
                       image_id |-> check.output, instances_restarted |-> targets]]

----------------------------------------------------------------------------
(* BUILD INFO *)

\* git log --oneline <base>..HEAD with HEAD at commit h: the commits after
\* base, or a failure when base names no revision of the source
gitLogRange(base, h) ==
  LET known == {c \in 1..h : gitCommit(c) = base}
  IN IF known = {} THEN [success |-> FALSE, output |-> {}]
     ELSE [success |-> TRUE,
           output |-> {gitCommit(c) : c \in {d \in 1..h : \A k \in known : d > k}}]

\* pendingCommits of getBuildInfo: the log since the commit of the last
\* successful record, or the recent commits when there is no such record
pendingCommits(lastSuccessful, h) ==
  IF lastSuccessful = {} THEN {gitCommit(c) : c \in 1..h}
  ELSE LET lastBuildCommit == (CHOOSE b \in lastSuccessful : TRUE).git_commit
           logResult == gitLogRange(lastBuildCommit, h)
       IN IF lastBuildCommit # gitCommit(h) /\ logResult.success
          THEN logResult.output ELSE {}

\* the mutant looks for the last successful build and skips the rollbacks
getBuildInfo_builds(history, imgs, h) ==
  LET lastSuccessful == findFirst(history, LAMBDA b : b.success /\ b.triggered_by # "rollback")
  IN [current_image |-> IF LatestTag \in DOMAIN imgs THEN imgs[LatestTag] ELSE Null,
      head_commit |-> gitCommit(h),
      last_build_commit |-> {b.git_commit : b \in lastSuccessful},
      has_changes |-> pendingCommits(lastSuccessful, h) # {},
      pending_commits |-> pendingCommits(lastSuccessful, h),
      available_tags |-> {<<t, imgs[t]>> : t \in DOMAIN imgs},
      last_build |-> lastSuccessful]

\* getBuildInfo: the image latest resolves to, the head commit of the
\* source, the available tags and lastSuccessful = history.builds.find((b) =>
\* b.success), here a set of at most one record (empty for null)
getBuildInfo(history, imgs, h) ==
  LET lastSuccessful == findFirst(history, LAMBDA b : b.success)
  IN [current_image |-> IF LatestTag \in DOMAIN imgs THEN imgs[LatestTag] ELSE Null,
      head_commit |-> gitCommit(h),
      last_build_commit |-> {b.git_commit : b \in lastSuccessful},
      has_changes |-> pendingCommits(lastSuccessful, h) # {},
      pending_commits |-> pendingCommits(lastSuccessful, h),
      available_tags |-> {<<t, imgs[t]>> : t \in DOMAIN imgs},
      last_build |-> lastSuccessful]

----------------------------------------------------------------------------
(* TOKEN ROUTES: the handler bodies *)

TokenFields == {"id", "token_hash", "label", "role", "created_at", "last_used_at"}

\* the mutant returns the records as stored
listTokens_raw(store) ==
  [status |-> 200, store |-> store, body |-> [tokens |-> store, count |-> Len(store)]]

\* GET /api/tokens: store.tokens.map(({ token_hash, ...rest }) => rest)
listTokens(store) ==
  [status |-> 200, store |-> store,
   body |-> [tokens |-> [i \in 1..Len(store) |->
                           [f \in TokenFields \ {"token_hash"} |-> store[i][f]]],
             count |-> Len(store)]]

\* the mutant persists the raw token instead of its hash
createToken_plain(store, label, role, k) ==
  IF label = "" \/ role \notin Roles
  THEN [status |-> 400, store |-> store, body |-> [error |-> "bad request"]]
  ELSE [status |-> 201,
        store |-> Append(store, [id |-> IdBase + k, token_hash |-> RawBase + k,
                                 label |-> label, role |-> role,
                                 created_at |-> now, last_used_at |-> Null]),
        body |-> [id |-> IdBase + k, token |-> RawBase + k, label |-> label,
                  role |-> role, created_at |-> now]]

\* POST /api/tokens; k numbers the random values drawn for the id and the token
createToken(store, label, role, k) ==
  IF label = "" \/ role \notin Roles
  THEN [status |-> 400, store |-> store, body |-> [error |-> "bad request"]]
  ELSE [status |-> 201,
        store |-> Append(store, [id |-> IdBase + k, token_hash |-> hashToken(RawBase + k),
                                 label |-> label, role |-> role,
                                 created_at |-> now, last_used_at |-> Null]),
        body |-> [id |-> IdBase + k, token |-> RawBase + k, label |-> label,
                  role |-> role, created_at |-> now]]

\* the mutant has no guard for the last remaining token
deleteToken_unguarded(store, id) ==
  LET idx == {i \in 1..Len(store) : store[i].id = id}
  IN IF idx = {} THEN [status |-> 404, store |-> store, body |-> [error |-> "Token not found"]]
     ELSE LET i == Min(idx)
          IN [status |-> 200,
              store |-> SubSeq(store, 1, i - 1) \o SubSeq(store, i + 1, Len(store)),
              body |-> [success |-> TRUE,
                        removed |-> [id |-> store[i].id, label |-> store[i].label]]]

\* DELETE /api/tokens/:id
deleteToken(store, id) ==
  LET idx == {i \in 1..Len(store) : store[i].id = id}
  IN IF idx = {} THEN [status |-> 404, store |-> store, body |-> [error |-> "Token not found"]]
     ELSE IF Len(store) = 1
     THEN [status |-> 400, store |-> store, body |-> [error |-> "Cannot delete the last token"]]
     ELSE LET i == Min(idx)
          IN [status |-> 200,
              store |-> SubSeq(store, 1, i - 1) \o SubSeq(store, i + 1, Len(store)),
              body |-> [success |-> TRUE,
                        removed |-> [id |-> store[i].id, label |-> store[i].label]]]

----------------------------------------------------------------------------
(* REQUESTS.  Every action is one request: the auth middleware, the role   *)
(* check of the route and the handler.  resp records the response together *)
(* with the credential presented and the role the middleware attached.     *)

Reply(op, via, status, a, cred, body) ==
  [op |-> op, via |-> via, status |-> status, caller |-> a.role, cred |-> cred,
   at |-> now, body |-> body]

\* the outcome of authMiddleware followed by requireRole(...roles)
gate(a, roles) ==
  IF a.status = 401 THEN 401 ELSE IF requireRole(roles, a.role) THEN 200 ELSE 403

\* a request that ends before its handler changes anything
Refuse(op, via, status, a, cred, err) ==
  /\ resp' = Reply(op, via, status, a, cred, [error |-> err])
  /\ cmds' = {}
  /\ UNCHANGED <<fleetVars, buildVars, now, backups>>

Denied(g) == IF g = 401 THEN "Unauthorized" ELSE "Forbidden"

\* what the middleware does to the token store, and what no request touches
Middleware(a) ==
  /\ tokens' = a.store
  /\ UNCHANGED <<envToken, nextTok, revoked, head, client, loop>>

\* process start: initTokenStore() with the environment of the new process
Boot(env) ==
  LET imported == initTokenStore(tokens, env, now, IdBase + nextTok + 1)
  IN /\ imported # tokens => nextTok < MaxTok
     /\ envToken' = env
     /\ tokens' = imported
     /\ nextTok' = IF imported # tokens THEN nextTok + 1 ELSE nextTok
     /\ resp' = [op |-> "boot", via |-> "process", status |-> 0, caller |-> "",
                 cred |-> NoCred, at |-> now,
                 body |-> [error |-> NullStr]]
     /\ cmds' = {}
     /\ UNCHANGED <<revoked, fleetVars, buildVars, head, client, loop, now, backups>>

\* time passes between two requests
\* a commit is pushed to the source directory the image is built from
SourceCommit ==
  /\ head < MaxHead
  /\ head' = head + 1
  /\ resp' = [op |-> "commit", via |-> "git", status |-> 0, caller |-> "",
              cred |-> NoCred, at |-> now, body |-> [error |-> NullStr]]
  /\ cmds' = {}
  /\ UNCHANGED <<tokenVars, fleetVars, buildVars, now, backups, loop, client>>

Tick(d) ==
  /\ now + d <= MaxClock
  /\ now' = now + d
  /\ UNCHANGED backups
  /\ resp' = [op |-> "tick", via |-> "clock", status |-> 0, caller |-> "",
              cred |-> NoCred, at |-> now,
              body |-> [error |-> NullStr]]
  /\ cmds' = {}
  /\ UNCHANGED <<tokenVars, fleetVars, buildVars, head, client, loop>>

(* Instances *)

Provision(op, via, a, cred, r, okStatus, errStatus) ==
  /\ instances' = r.instances
  /\ dirs' = r.dirs
  /\ containers' = r.containers
  /\ cmds' = r.cmds
  /\ resp' = Reply(op, via, IF r.result.error # NullStr THEN errStatus ELSE okStatus,
                   a, cred, r.result)
  /\ UNCHANGED <<buildVars, now, backups>>

\* POST /api/instances
ApiCreateInstance(cred, name, display_name, api_key, postgres_image, dbPassword, genKey, startOk, leftover, psOk) ==
  LET a == authMiddleware(cred)
      g == gate(a, {"admin", "deployer"})
  IN /\ Middleware(a)
     /\ IF g # 200 THEN Refuse("createInstance", "rest", g, a, cred, Denied(g))
        ELSE IF name = NoName \/ display_name = ""
        THEN Refuse("createInstance", "rest", 400, a, cred, "name and display_name required")
        ELSE IF ~nameRegex(name)
        THEN Refuse("createInstance", "rest", 400, a, cred, "Invalid name format")
        ELSE Provision("createInstance", "rest", a, cred,
                       createInstance(name, display_name, api_key, postgres_image,
                                      dbPassword, genKey, startOk, leftover, psOk), 201, 409)

\* DELETE /api/instances/:name
ApiRemoveInstance(cred, name, delete_data, downOk) ==
  LET a == authMiddleware(cred)
      g == gate(a, {"admin"})
  IN /\ Middleware(a)
     /\ IF g # 200 THEN Refuse("removeInstance", "rest", g, a, cred, Denied(g))
        ELSE Provision("removeInstance", "rest", a, cred,
                       removeInstance(name, delete_data, downOk), 200, 200)

\* the roles a lifecycle route admits: stop is for admins only
lifecycleRoles(action) ==
  IF action = "stop" THEN {"admin"} ELSE {"admin", "deployer"}

\* POST /api/instances/:name/restart, /stop and /start: the route looks for
\* the stack definition in the instance directory, never at the registry,
\* and answers with the result of the compose command; ok is its outcome
ApiLifecycle(cred, name, action, ok) ==
  LET a == authMiddleware(cred)
      g == gate(a, lifecycleRoles(action))
  IN /\ Middleware(a)
     /\ IF g # 200 THEN Refuse(action, "rest", g, a, cred, Denied(g))
        ELSE IF name \notin DOMAIN dirs
        THEN Refuse(action, "rest", 404, a, cred, "Instance not found")
        ELSE /\ containers' = IF action = "start" /\ ok THEN containers \cup {name}
                              ELSE containers
             /\ cmds' = {<<action, name>>}
             /\ resp' = Reply(action, "rest", 200, a, cred,
                              [success |-> ok,
                               error |-> IF ok THEN NullStr ELSE "compose failed"])
             /\ UNCHANGED <<instances, dirs, buildVars, now, backups>>

\* formatBytes(bytes) for the sizes below one kilobyte
formatBytes(bytes) == <<bytes, "B">>

\* what `docker exec db-<name> pg_dump -U ship ship > <path>` leaves in
\* <path>: the shell opens <path> for writing before the dump runs, so a
\* dump that fails leaves the file empty or with the part already written
dumpSizes(ok) == IF ok THEN {2} ELSE {0, 1}

\* the .sql files of BACKUPS_DIR/<name>, oldest first (existsSync, readdirSync)
backupFiles(store, name) == IF name \in DOMAIN store THEN store[name] ELSE <<>>

\* mkdirSync(BACKUPS_DIR/<name>) and the redirection: <name>_<ts>.sql of the
\* given size is added to the directory; the stamp of a file is its position
pgDump(store, name, size) ==
  [n \in DOMAIN store \cup {name} |->
     IF n = name THEN Append(backupFiles(store, name), size) ELSE store[n]]

\* the body of GET /api/instances/:name/backups: file, size, newest first
listBackups(store, name) ==
  LET files == backupFiles(store, name)
  IN [i \in 1..Len(files) |->
        [file |-> <<name, Len(files) + 1 - i>>,
         size |-> formatBytes(files[Len(files) + 1 - i])]]

\* POST /api/instances/:name/backup: pg_dump of the instance's database
\* into the backups directory; ok is the outcome of the dump
ApiBackup(cred, name, ok) ==
  LET a == authMiddleware(cred)
      g == gate(a, {"admin", "deployer"})
  IN /\ Middleware(a)
     /\ IF g # 200 THEN Refuse("backup", "rest", g, a, cred, Denied(g))
        ELSE IF name \notin DOMAIN instances
        THEN Refuse("backup", "rest", 404, a, cred, "Instance not found")
        ELSE /\ Len(backupFiles(backups, name)) < MaxBackups
             /\ \E size \in dumpSizes(ok) : backups' = pgDump(backups, name, size)
             /\ cmds' = {<<"pg_dump", name>>}
             /\ resp' = Reply("backup", "rest", IF ok THEN 200 ELSE 500, a, cred,
                              [success |-> ok, name |-> name,
                               error |-> IF ok THEN NullStr ELSE "pg_dump failed"])
             /\ UNCHANGED <<fleetVars, buildVars, now>>

\* GET /api/instances/:name/backups (authMiddleware only)
ApiBackups(cred, name) ==
  LET a == authMiddleware(cred)
  IN /\ Middleware(a)
     /\ IF a.status = 401
        THEN Refuse("backups", "rest", 401, a, cred, "Unauthorized")
        ELSE IF name \notin DOMAIN instances
        THEN Refuse("backups", "rest", 404, a, cred, "Instance not found")
        ELSE /\ cmds' = {}
             /\ resp' = Reply("backups", "rest", 200, a, cred,
                              [name |-> name, backups |-> listBackups(backups, name),
                               error |-> NullStr])
             /\ UNCHANGED <<fleetVars, buildVars, now, backups>>

\* the mutant also copies a new API key into the registry entry
updateEnv_registry(name, env_vars, restart) ==
  [instances |-> IF "MATRX_SHIP_API_KEY" \in DOMAIN env_vars
                 THEN [instances EXCEPT ![name].api_key = env_vars.MATRX_SHIP_API_KEY]
                 ELSE instances,
   dirs |-> [dirs EXCEPT ![name].env = env_vars @@ @],
   containers |-> IF restart THEN containers \cup {name} ELSE containers,
   cmds |-> IF restart THEN {<<"recreate", name>>} ELSE {},
   result |-> [success |-> TRUE, error |-> NullStr, updated |-> DOMAIN env_vars,
               restarted |-> restart]]

\* the body of PUT /api/instances/:name/env for a registered instance: every
\* variable of env_vars replaces its line of the .env file or is added to
\* it, and the app container is recreated unless restart is false
updateEnv(name, env_vars, restart) ==
  [instances |-> instances,
   dirs |-> [dirs EXCEPT ![name].env = env_vars @@ @],
   containers |-> IF restart THEN containers \cup {name} ELSE containers,
   cmds |-> IF restart THEN {<<"recreate", name>>} ELSE {},
   result |-> [success |-> TRUE, error |-> NullStr, updated |-> DOMAIN env_vars,
               restarted |-> restart]]

\* no env_vars object in the request body
NoVars == [missing |-> TRUE]

\* PUT /api/instances/:name/env
ApiEnvUpdate(cred, name, env_vars, restart) ==
  LET a == authMiddleware(cred)
      g == gate(a, {"admin", "deployer"})
  IN /\ Middleware(a)
     /\ IF g # 200 THEN Refuse("env", "rest", g, a, cred, Denied(g))
        ELSE IF name \notin DOMAIN instances
        THEN Refuse("env", "rest", 404, a, cred, "Instance not found")
        ELSE IF env_vars = NoVars
        THEN Refuse("env", "rest", 400, a, cred, "env_vars object required")
        ELSE IF name \notin DOMAIN dirs
        THEN Refuse("env", "rest", 500, a, cred, "ENOENT")
        ELSE LET r == updateEnv(name, env_vars, restart)
             IN /\ instances' = r.instances
                /\ dirs' = r.dirs
                /\ containers' = r.containers
                /\ cmds' = r.cmds
                /\ resp' = Reply("env", "rest", 200, a, cred, r.result)
                /\ UNCHANGED <<buildVars, now, backups>>

(* Builds *)

Rebuild(op, via, a, cred, r) ==
  /\ images' = r.images
  /\ nextImg' = r.nextImg
  /\ builds' = r.builds
  /\ containers' = r.containers
  /\ now' = r.now
  /\ UNCHANGED backups
  /\ cmds' = r.cmds
  /\ resp' = Reply(op, via, IF via = "mcp" \/ r.result.success THEN 200 ELSE 500,
                   a, cred, r.result)
  /\ UNCHANGED <<instances, dirs>>

\* a build needs a fresh image id, room in the history and time on the clock
CanBuild(skip_build) ==
  skip_build \/ (nextImg < MaxImg /\ Len(builds) < MaxBuilds
                 /\ now + BuildDuration <= MaxClock)

\* POST /api/rebuild
ApiRebuild(cred, name, skip_build, buildOk, restartFail, listOk, rmFail) ==
  LET a == authMiddleware(cred)
      g == gate(a, {"admin", "deployer"})
      triggered_by == IF a.label # "" THEN a.label ELSE "api"
  IN /\ CanBuild(skip_build)
     /\ Middleware(a)
     /\ IF g # 200 THEN Refuse("rebuild", "rest", g, a, cred, Denied(g))
        ELSE Rebuild("rebuild", "rest", a, cred,
                     rebuildInstances(name, skip_build, triggered_by, buildOk,
                                      restartFail, listOk, rmFail))

Rollback(op, via, a, cred, r) ==
  /\ images' = r.images
  /\ builds' = r.builds
  /\ containers' = r.containers
  /\ cmds' = r.cmds
  /\ resp' = Reply(op, via, IF via = "mcp" \/ r.result.success THEN 200 ELSE 400,
                   a, cred, r.result)
  /\ UNCHANGED <<instances, dirs, nextImg, now, backups>>

\* a rollback needs room in the history
CanRollback ==
  /\ Len(builds) < MaxBuilds
  /\ Cardinality({i \in 1..Len(builds) : builds[i].triggered_by = "rollback"})
       < MaxRollbacks

\* POST /api/rollback
ApiRollback(cred, tag, retagOk, restartFail) ==
  LET a == authMiddleware(cred)
      g == gate(a, {"admin"})
  IN /\ CanRollback
     /\ Middleware(a)
     /\ IF g # 200 THEN Refuse("rollback", "rest", g, a, cred, Denied(g))
        ELSE IF tag = "" THEN Refuse("rollback", "rest", 400, a, cred, "tag is required")
        ELSE Rollback("rollback", "rest", a, cred, rollbackBuild(tag, retagOk, restartFail))

Cleanup(op, via, a, cred, r) ==
  /\ images' = r.images
  /\ cmds' = r.cmds
  /\ resp' = Reply(op, via, 200, a, cred,
                   [r.result EXCEPT !.preceding =
                      IF resp.op = op /\ resp.status = 200
                      THEN [sweep |-> TRUE, removed |-> resp.body.removed]
                      ELSE [sweep |-> FALSE, removed |-> {}]])
  /\ UNCHANGED <<instances, dirs, containers, nextImg, builds, now, backups>>

\* POST /api/build-cleanup
ApiBuildCleanup(cred, listOk, rmFail) ==
  LET a == authMiddleware(cred)
      g == gate(a, {"admin"})
  IN /\ Middleware(a)
     /\ IF g # 200 THEN Refuse("cleanup", "rest", g, a, cred, Denied(g))
        ELSE Cleanup("cleanup", "rest", a, cred,
                     cleanupBuildImages(builds, images, now, listOk, rmFail))

\* GET /api/build-info
ApiBuildInfo(cred) ==
  LET a == authMiddleware(cred)
  IN /\ Middleware(a)
     /\ IF a.status # 200 THEN Refuse("buildInfo", "rest", a.status, a, cred, Denied(a.status))
        ELSE /\ resp' = Reply("buildInfo", "rest", 200, a, cred,
                              getBuildInfo(builds, images, head))
             /\ cmds' = {}
             /\ UNCHANGED <<fleetVars, buildVars, now, backups>>

(* Tokens *)

\* the response of a token route and the store its handler saved
TokenReply(op, a, cred, h) ==
  /\ tokens' = h.store
  /\ resp' = Reply(op, "rest", h.status, a, cred, h.body)
  /\ cmds' = {}
  /\ UNCHANGED <<envToken, head, client, loop, fleetVars, buildVars, now, backups>>

\* a token route that authMiddleware or requireRole("admin") turns away
TokenRefuse(op, a, cred, g) ==
  /\ tokens' = a.store
  /\ resp' = Reply(op, "rest", g, a, cred, [error |-> Denied(g)])
  /\ cmds' = {}
  /\ UNCHANGED <<envToken, nextTok, revoked, head, client, loop, fleetVars, buildVars, now, backups>>

\* GET /api/tokens
ApiListTokens(cred) ==
  LET a == authMiddleware(cred)
      g == gate(a, {"admin"})
  IN IF g # 200 THEN TokenRefuse("listTokens", a, cred, g)
     ELSE /\ TokenReply("listTokens", a, cred, listTokens(a.store))
          /\ UNCHANGED <<nextTok, revoked>>

\* POST /api/tokens; the random id and token drawn are numbered nextTok + 1
ApiCreateToken(cred, label, role) ==
  LET a == authMiddleware(cred)
      g == gate(a, {"admin"})
      h == createToken(a.store, label, role, nextTok + 1)
  IN /\ (g = 200 /\ h.status = 201) => nextTok < MaxTok
     /\ IF g # 200 THEN TokenRefuse("createToken", a, cred, g)
        ELSE /\ TokenReply("createToken", a, cred, h)
             /\ nextTok' = IF h.status = 201 THEN nextTok + 1 ELSE nextTok
             /\ UNCHANGED revoked

\* DELETE /api/tokens/:id; revoked collects the hashes of the deleted tokens
ApiDeleteToken(cred, id) ==
  LET a == authMiddleware(cred)
      g == gate(a, {"admin"})
      h == deleteToken(a.store, id)
  IN IF g # 200 THEN TokenRefuse("deleteToken", a, cred, g)
     ELSE /\ TokenReply("deleteToken", a, cred, h)
          /\ revoked' = IF h.status = 200
                        THEN revoked \cup {a.store[i].token_hash :
                                             i \in {j \in 1..Len(a.store) : a.store[j].id = id}}
                        ELSE revoked
          /\ UNCHANGED nextTok

(* Tool calls: POST /mcp runs authMiddleware and then the tool *)

\* app_create; the tool schema checks the name, createInstance the rest
McpAppCreate(cred, name, display_name, api_key, postgres_image, dbPassword, genKey, startOk, leftover, psOk) ==
  LET a == authMiddleware(cred)
  IN /\ Middleware(a)
     /\ IF a.status # 200 THEN Refuse("createInstance", "mcp", a.status, a, cred, Denied(a.status))
        ELSE IF ~nameRegex(name)
        THEN Refuse("createInstance", "mcp", InvalidParams, a, cred, "Invalid arguments")
        ELSE Provision("createInstance", "mcp", a, cred,
                       createInstance(name, display_name, api_key, postgres_image,
                                      dbPassword, genKey, startOk, leftover, psOk), 200, 200)

\* app_remove
McpAppRemove(cred, name, delete_data, downOk) ==
  LET a == authMiddleware(cred)
  IN /\ Middleware(a)
     /\ IF a.status # 200 THEN Refuse("removeInstance", "mcp", a.status, a, cred, Denied(a.status))
        ELSE Provision("removeInstance", "mcp", a, cred,
                       removeInstance(name, delete_data, downOk), 200, 200)

\* app_rebuild
McpAppRebuild(cred, name, skip_build, buildOk, restartFail, listOk, rmFail) ==
  LET a == authMiddleware(cred)
  IN /\ CanBuild(skip_build)
     /\ Middleware(a)
     /\ IF a.status # 200 THEN Refuse("rebuild", "mcp", a.status, a, cred, Denied(a.status))
        ELSE Rebuild("rebuild", "mcp", a, cred,
                     rebuildInstances(name, skip_build, "mcp", buildOk,
                                      restartFail, listOk, rmFail))

\* build_rollback
McpBuildRollback(cred, tag, retagOk, restartFail) ==
  LET a == authMiddleware(cred)
  IN /\ CanRollback
     /\ Middleware(a)
     /\ IF a.status # 200 THEN Refuse("rollback", "mcp", a.status, a, cred, Denied(a.status))
        ELSE Rollback("rollback", "mcp", a, cred, rollbackBuild(tag, retagOk, restartFail))

\* build_cleanup
McpBuildCleanup(cred, listOk, rmFail) ==
  LET a == authMiddleware(cred)
  IN /\ Middleware(a)
     /\ IF a.status # 200 THEN Refuse("cleanup", "mcp", a.status, a, cred, Denied(a.status))
        ELSE Cleanup("cleanup", "mcp", a, cred,
                     cleanupBuildImages(builds, images, now, listOk, rmFail))

----------------------------------------------------------------------------
(* INITIAL STATES *)

\* the request slots of the event loop, and a slot with no handler in it
Slots == {1, 2}

IdleFrame ==
  [pc |-> "idle", op |-> "", name |-> <<>>, tag |-> "", ok |-> TRUE,
   config |-> <<>>, check |-> Null]

\* no handler is pending; ledger is the set of names that the returned
\* provisioning and removal requests leave registered, overlap whether two
\* requests were ever pending together, served the number of requests taken
IdleLoop ==
  [frames |-> [r \in Slots |-> IdleFrame], ledger |-> {}, overlap |-> FALSE,
   served |-> 0]

\* the arguments and the surroundings of a run of the ship command, before
\* any run
NoShipInput ==
  [message |-> FALSE, repo |-> FALSE, changes |-> FALSE, config |-> FALSE,
   server |-> "", add |-> FALSE, commit |-> FALSE, push |-> FALSE]

\* no ship command has run; trace is the sequence of the steps a run took
\* and exit its exit code
IdleShip == [ran |-> FALSE, input |-> NoShipInput, trace |-> <<>>, exit |-> Null]

\* the state of useAdminActions before any deploy: deploying false,
\* buildPhase null; pc is the position of handleDeploy, stream the chunks the
\* response body has still to deliver, toasts the notifications shown
IdleDeploy ==
  [pc |-> "idle", deploying |-> FALSE, buildPhase |-> NullStr, buildLogs |-> 0,
   stream |-> <<>>, toasts |-> <<>>, reloaded |-> FALSE]

IdleClient == [ship |-> IdleShip, deploy |-> IdleDeploy]

(* BACKUPS_DIR before any dump was taken: no directory of any instance *)
NoBackups == EmptyMap

Acme == <<"a", "a">>
Beta == <<"a", "-", "b">>

\* the record and the directory createInstance writes for a first request
\* with display name "Acme" and no overrides, the random values being "r1"
FirstRecord(status) ==
  [display_name |-> "Acme", api_key |-> "sk_ship_r1", db_password |-> "r1",
   postgres_image |-> DefaultPg, created_at |-> 0, status |-> status]

FirstDir ==
  [compose |-> DefaultPg,
   env |-> [POSTGRES_PASSWORD |-> "r1", PROJECT_NAME |-> "Acme",
            MATRX_SHIP_API_KEY |-> "sk_ship_r1"]]

BootResp ==
  [op |-> "boot", via |-> "process", status |-> 0, caller |-> "", cred |-> NoCred,
   at |-> 0, body |-> [error |-> NullStr]]

\* the state after the first start of the server on an empty host
InitEmpty(env) ==
  /\ envToken = env
  /\ tokens = initTokenStore(<<>>, env, 0, IdBase + 1)
  /\ nextTok = IF env = NoCred THEN 0 ELSE 1
  /\ revoked = {}
  /\ instances = EmptyMap
  /\ dirs = EmptyMap
  /\ containers = {}
  /\ images = EmptyMap
  /\ nextImg = 0
  /\ builds = <<>>
  /\ head = 1
  /\ client = IdleClient
  /\ backups = NoBackups
  /\ loop = IdleLoop
  /\ now = 0
  /\ cmds = {}
  /\ resp = BootResp

\* the fleet that provisioning leaves behind: a running instance next to
\* one whose start failed
InitFleets ==
  { (Acme :> FirstRecord("running")) @@ (Beta :> FirstRecord("created")) }

\* an open-mode server (no MCP_BEARER_TOKEN) with a provisioned fleet and no
\* image built yet
InitBuild ==
  /\ envToken = NoCred
  /\ tokens = <<>>
  /\ nextTok = 0
  /\ revoked = {}
  /\ instances \in InitFleets
  /\ dirs = [n \in DOMAIN instances |-> FirstDir]
  /\ containers = {n \in DOMAIN instances : instances[n].status = "running"}
  /\ images = EmptyMap
  /\ nextImg = 0
  /\ builds = <<>>
  /\ head = 1
  /\ client = IdleClient
  /\ backups = NoBackups
  /\ loop = IdleLoop
  /\ now = 0
  /\ cmds = {}
  /\ resp = BootResp

----------------------------------------------------------------------------
(* SPECIFICATION OF THE BUILD PIPELINE, THE ROLLBACK MANAGER AND RETENTION *)

TickSteps == {ONE_WEEK}
PresentBuildTags == (DOMAIN images) \cap BuildTags

\* the outcomes of the docker rmi commands of one sweep: at most one fails
RmFailures == {{}} \cup {{t} : t \in PresentBuildTags}

\* a run of the pipeline: a build of the whole fleet, or a restart only
BuildRequest ==
  \/ \E buildOk \in BOOLEAN, rmFail \in RmFailures \cup {{generateBuildTag(now)}} :
       /\ ~buildOk => rmFail = {}
       /\ ApiRebuild(NoCred, NoName, FALSE, buildOk, {}, TRUE, rmFail)
  \/ \E name \in {NoName, <<"b">>}, restartFail \in {{}, {Acme}} :
       ApiRebuild(NoCred, name, TRUE, TRUE, restartFail, TRUE, {})

\* a tag that no build of the model produces
UnknownTag == "19990101-000000"

\* the tags a rollback request names: the tags that exist, the tags of the
\* recorded builds (which a sweep may have removed), an unknown tag, no tag
RollbackInputs ==
  (DOMAIN images) \cup {builds[i].tag : i \in 1..Len(builds)} \cup {"", UnknownTag}

RollbackRequest ==
  \E tag \in RollbackInputs, retagOk \in BOOLEAN :
    ApiRollback(NoCred, tag, retagOk, {})

CleanupRequest ==
  \E listOk \in BOOLEAN, rmFail \in RmFailures :
    /\ ~listOk => rmFail = {}
    /\ ApiBuildCleanup(NoCred, listOk, rmFail)

TimePasses == \E d \in TickSteps : Tick(d)

\* build-info only reads; it is asked for after a build or a rollback
BuildInfoRequest == resp.op \in {"rebuild", "rollback"} /\ ApiBuildInfo(NoCred)

\* the manager process is restarted after a request; the history file, the
\* registry and the images are on disk and in the container runtime
ProcessRestart == resp.op \in {"rebuild", "rollback", "cleanup"} /\ Boot(NoCred)

NextBuild ==
  \/ BuildRequest
  \/ RollbackRequest
  \/ CleanupRequest
  \/ TimePasses
  \/ BuildInfoRequest
  \/ ProcessRestart

SpecBuild == InitBuild /\ [][NextBuild]_vars

----------------------------------------------------------------------------
(* CLAIMS ABOUT THE BUILD PIPELINE *)

\* the last request ran the handler named op (it was not turned away)
Handled(r, op) == r.op = op /\ r.status \notin {400, 401, 403, 404, InvalidParams}

BuildFailed(r) == Handled(r, "rebuild") /\ ~r.body.success

Resolves(imgs, tag) == IF tag \in DOMAIN imgs THEN imgs[tag] ELSE Null

\* C1: when the image build of a pipeline run fails, every InstanceRecord
\* has the status it had before the run and the tag latest resolves to the
\* image it resolved to before the run (or still to none).
C1_FailedBuildKeepsFleet ==
  [][BuildFailed(resp') =>
       /\ DOMAIN instances' = DOMAIN instances
       /\ \A n \in DOMAIN instances : instances'[n].status = instances[n].status
       /\ Resolves(images', LatestTag) = Resolves(images, LatestTag)]_vars

C1_Witness ==
  /\ BuildFailed(resp)
  /\ LatestTag \in DOMAIN images
  /\ \E n \in DOMAIN instances : instances[n].status = "running"

\* C2: a run whose build fails prepends exactly one BuildRecord, with
\* success false, an error, a null image id and no instance restarted, and
\* runs no force-recreate command.
C2_FailedBuildRecord ==
  [][BuildFailed(resp') =>
       /\ Len(builds') = Len(builds) + 1
       /\ Tail(builds') = builds
       /\ builds'[1].success = FALSE
       /\ builds'[1].error # NullStr
       /\ builds'[1].image_id = Null
       /\ builds'[1].instances_restarted = {}
       /\ \A c \in cmds' : c[1] # "recreate"]_vars

C2_Witness ==
  /\ BuildFailed(resp)
  /\ Len(builds) >= 2
  /\ ~builds[1].success
  /\ DOMAIN instances # {}

\* C3: after a successful rollback to a tag T, latest resolves to the image
\* T resolved to when the rollback was requested.
C3_RollbackTargetBecomesLatest ==
  [][Handled(resp', "rollback") /\ resp'.body.success =>
       Resolves(images', LatestTag) = Resolves(images, resp'.body.rolled_back_to)]_vars

----------------------------------------------------------------------------
(* CLAIMS ABOUT THE RETENTION POLICY *)

\* two retention sweeps in succession: resp is the response of the first,
\* resp' that of the second, and no request or clock tick lies in between
TwoSweeps == Handled(resp, "cleanup") /\ Handled(resp', "cleanup")

----------------------------------------------------------------------------
(* SPECIFICATION OF THE INSTANCE PROVISIONER *)

\* what a provisioning request can carry: display name, api_key override and
\* postgres_image override
CreateBodies ==
  { <<"Acme", NoKey, NoKey>>, <<"Other", "sk_own", "postgres:16">>, <<"", NoKey, NoKey>> }

\* the random values drawn for the database password and the API key
Draws == {"r1", "r2"}

FleetNames == {Acme, Beta, <<"-", "a">>, <<"a">>, NoName}

CreateRequest ==
  \E name \in FleetNames, b \in CreateBodies, d \in Draws, startOk \in BOOLEAN,
     leftover \in BOOLEAN, psOk \in BOOLEAN, mcp \in BOOLEAN :
    /\ startOk => ~leftover
    /\ ~nameRegex(name) => (d = "r1" /\ startOk)
    /\ ~psOk => (name \in containers /\ name \notin DOMAIN instances /\ nameRegex(name))
    /\ IF mcp
       THEN name # NoName
            /\ McpAppCreate(NoCred, name, b[1], b[2], b[3], d, d, startOk, leftover, psOk)
       ELSE ApiCreateInstance(NoCred, name, b[1], b[2], b[3], d, d, startOk, leftover, psOk)

RemoveRequest ==
  \E name \in {Acme, Beta}, delete_data \in BOOLEAN, downOk \in BOOLEAN, mcp \in BOOLEAN :
    IF mcp THEN McpAppRemove(NoCred, name, delete_data, downOk)
    ELSE ApiRemoveInstance(NoCred, name, delete_data, downOk)

InitFleet == InitEmpty(NoCred)

NextFleet == CreateRequest \/ RemoveRequest \/ TimePasses

SpecFleet == InitFleet /\ [][NextFleet]_vars

----------------------------------------------------------------------------
(* CLAIMS ABOUT THE INSTANCE PROVISIONER *)

\* C4: a provisioning request that reaches createInstance with a name that
\* is already in the registry is answered with a conflict (409 on the REST
\* route, the error result on the tool channel) and leaves the registry, the
\* instance directories (stack definition and secrets file) and the
\* containers as they were.
C4_DuplicateNameConflict ==
  [][(Handled(resp', "createInstance") /\ resp'.body.name \in DOMAIN instances) =>
       /\ resp'.via = "rest" => resp'.status = 409
       /\ resp'.body.error = "already exists"
       /\ instances' = instances
       /\ dirs' = dirs
       /\ containers' = containers]_vars

\* a second provisioning request for a registered name, made at a later time
\* than the first, was answered with a conflict
C4_Witness ==
  /\ resp.op = "createInstance"
  /\ resp.via = "rest"
  /\ resp.status = 409
  /\ resp.body.name \in DOMAIN instances
  /\ instances[resp.body.name].created_at < resp.at

----------------------------------------------------------------------------
(* SPECIFICATION OF THE TOKEN STORE AND THE AUTH MIDDLEWARE *)

\* the credentials a caller can present: none, one never issued, the
\* bootstrap credential, and the raw tokens issued so far
Credentials == {NoCred, BogusRaw, BootRaw} \cup {RawBase + k : k \in 1..nextTok}

\* the ids a caller can name: those issued so far and one never issued
TokenIds == {IdBase + k : k \in 0..nextTok}

InitAuth == \E env \in {NoCred, BootRaw} : InitEmpty(env)

\* the server process is restarted, with or without MCP_BEARER_TOKEN set
Restart == \E env \in {NoCred, BootRaw} : Boot(env)

ListTokensRequest == \E cred \in Credentials : ApiListTokens(cred)

CreateTokenRequest ==
  \E cred \in Credentials, label \in Labels \cup {""}, role \in {"admin", "root"} :
    /\ label = "" => role = "admin"
    /\ ApiCreateToken(cred, label, role)

DeleteTokenRequest == \E cred \in Credentials, id \in TokenIds : ApiDeleteToken(cred, id)

\* one protected route that changes the registry
ProvisionRequest ==
  \E cred \in Credentials :
    ApiCreateInstance(cred, Acme, "Acme", NoKey, NoKey, "r1", "r1", TRUE, FALSE, TRUE)

NextAuth ==
  \/ Restart
  \/ ListTokensRequest
  \/ CreateTokenRequest
  \/ DeleteTokenRequest
  \/ ProvisionRequest

SpecAuth == InitAuth /\ [][NextAuth]_vars

----------------------------------------------------------------------------
(* SPECIFICATION OF THE ROLE CHECKS ON THE TWO TRANSPORTS *)

\* the store after a first boot with MCP_BEARER_TOKEN set and the creation
\* of a deployer token and a viewer token
RoleStore ==
  LET boot == initTokenStore(<<>>, BootRaw, 0, IdBase + 1)
      dep == [id |-> IdBase + 2, token_hash |-> hashToken(RawBase + 2), label |-> "ci",
              role |-> "deployer", created_at |-> 0, last_used_at |-> Null]
      view == [id |-> IdBase + 3, token_hash |-> hashToken(RawBase + 3), label |-> "ci",
               role |-> "viewer", created_at |-> 0, last_used_at |-> Null]
  IN Append(Append(boot, dep), view)

AdminCred == BootRaw
DeployerCred == RawBase + 2
ViewerCred == RawBase + 3
RoleCreds == {AdminCred, ViewerCred}

InitRoles ==
  /\ envToken = BootRaw
  /\ tokens = RoleStore
  /\ nextTok = 3
  /\ revoked = {}
  /\ instances = (Acme :> FirstRecord("running"))
  /\ dirs = (Acme :> FirstDir)
  /\ containers = {Acme}
  /\ images = EmptyMap
  /\ nextImg = 0
  /\ builds = <<>>
  /\ head = 1
  /\ client = IdleClient
  /\ backups = NoBackups
  /\ loop = IdleLoop
  /\ now = 0
  /\ cmds = {}
  /\ resp = BootResp

RoleProvision ==
  \E cred \in RoleCreds :
    \/ ApiCreateInstance(cred, Beta, "Other", NoKey, NoKey, "r2", "r2", TRUE, FALSE, TRUE)
    \/ McpAppCreate(cred, Beta, "Other", NoKey, NoKey, "r2", "r2", TRUE, FALSE, TRUE)

RoleRemove ==
  \E cred \in RoleCreds :
    \/ ApiRemoveInstance(cred, Beta, TRUE, TRUE)
    \/ McpAppRemove(cred, Beta, TRUE, TRUE)

RoleRebuild ==
  \E cred \in RoleCreds :
    /\ Len(builds) < MaxRoleBuilds
    /\ \/ ApiRebuild(cred, NoName, FALSE, TRUE, {}, TRUE, {})
       \/ McpAppRebuild(cred, NoName, FALSE, TRUE, {}, TRUE, {})

RoleRollback ==
  \E cred \in RoleCreds, tag \in PresentBuildTags :
    /\ Len(builds) < MaxRoleBuilds
    /\ \/ ApiRollback(cred, tag, TRUE, {})
       \/ McpBuildRollback(cred, tag, TRUE, {})

RoleCleanup ==
  \E cred \in RoleCreds :
    \/ ApiBuildCleanup(cred, TRUE, {})
    \/ McpBuildCleanup(cred, TRUE, {})

NextRoles == RoleProvision \/ RoleRemove \/ RoleRebuild \/ RoleRollback \/ RoleCleanup

SpecRoles == InitRoles /\ [][NextRoles]_vars

----------------------------------------------------------------------------
(* CLAIMS ABOUT AUTHORIZATION *)

\* the last step was a control-plane request
IsRequest(r) == r.via \in {"rest", "mcp"}

\* C5: a caller authenticated with a viewer-role token changes neither the
\* registry nor the image tags nor the build history, on the REST API and on
\* the tool-call channel alike.
C5_ViewerChangesNothing ==
  [][(IsRequest(resp') /\ resp'.caller = "viewer") =>
       /\ instances' = instances
       /\ images' = images
       /\ builds' = builds]_vars

\* the credential matches a record of the store
Matches(store, cred) ==
  cred # NoCred /\ \E i \in 1..Len(store) : store[i].token_hash = hashToken(cred)

\* C6: while the token store holds at least one token, a request that
\* presents no credential, or one whose hash matches no record, is answered
\* 401 and changes neither the registry nor the image tags nor the build
\* history nor the token store.
C6_UnknownCallerRejected ==
  [][(IsRequest(resp') /\ Len(tokens) >= 1 /\ ~Matches(tokens, resp'.cred)) =>
       /\ resp'.status = 401
       /\ instances' = instances
       /\ images' = images
       /\ builds' = builds
       /\ tokens' = tokens]_vars

----------------------------------------------------------------------------
(* CLAIMS ABOUT THE TOKEN STORE *)

\* the records of a store without their last_used_at stamps
Unstamped(store) ==
  [i \in 1..Len(store) |-> [f \in TokenFields \ {"last_used_at"} |-> store[i][f]]]

\* a request to delete the only record of the store that passed the auth
\* middleware and the role check and named an existing id
DeletesLast == /\ resp'.op = "deleteToken"
               /\ Len(tokens) = 1
               /\ resp'.status \notin {401, 403, 404}

\* C7 as stated: the token store holds at least one record in every
\* reachable state, and a delete request for the only remaining token is
\* refused and leaves the store unchanged.
C7_StoreNeverEmpty ==
  /\ [](Len(tokens) >= 1)
  /\ [][DeletesLast => (resp'.status = 400 /\ tokens' = tokens)]_vars

\* C7, amended: the store holds a record whenever a bootstrap credential is
\* configured, a store that holds a record never becomes empty, and a delete
\* request for the only remaining token is refused with 400 and leaves the
\* records unchanged apart from the last_used_at stamp the middleware sets.
C7_StoreNeverEmptied ==
  /\ [](envToken # NoCred => Len(tokens) >= 1)
  /\ [][Len(tokens) >= 1 => Len(tokens') >= 1]_vars
  /\ [][DeletesLast => (resp'.status = 400 /\ Unstamped(tokens') = Unstamped(tokens))]_vars

\* the delete of the only remaining token was refused
C7_Witness ==
  /\ resp.op = "deleteToken"
  /\ resp.status = 400
  /\ resp.body.error = "Cannot delete the last token"
  /\ Len(tokens) = 1

\* C8: with two or more tokens in the store a delete by id succeeds, and a
\* credential whose token was deleted is never authenticated again, across
\* any later requests and restarts.
C8_DeletedTokenStaysOut ==
  /\ [][(resp'.op = "deleteToken" /\ Len(tokens) >= 2
          /\ resp'.status \notin {401, 403, 404}) => resp'.status = 200]_vars
  /\ [][(IsRequest(resp') /\ resp'.cred # NoCred /\ hashToken(resp'.cred) \in revoked)
          => resp'.caller = ""]_vars

\* the fields of a token record that hold generated values
ValueFields == {"id", "token_hash", "created_at", "last_used_at"}

\* the raw tokens and the hashes among the values of a record
Secrets(rec) ==
  {rec[f] : f \in (DOMAIN rec) \cap ValueFields} \cap (RawTokens \cup HashValues)

\* C9: the store holds the hash of a token and never its raw value; the
\* response to POST /api/tokens carries the raw value of the token created
\* and not its hash; the responses to GET /api/tokens and DELETE
\* /api/tokens/:id carry neither a raw value nor a hash, a listed token
\* having only id, label, role, created_at and last_used_at.
C9_RawTokenOnlyAtCreation ==
  /\ \A i \in 1..Len(tokens) :
       /\ tokens[i].token_hash \in HashValues
       /\ Secrets(tokens[i]) = {tokens[i].token_hash}
  /\ (resp.op = "createToken" /\ resp.status = 201) =>
       /\ resp.body.token \in RawTokens
       /\ \E i \in 1..Len(tokens) : /\ tokens[i].id = resp.body.id
                                     /\ tokens[i].token_hash = hashToken(resp.body.token)
       /\ {resp.body.id, resp.body.created_at} \cap (RawTokens \cup HashValues) = {}
  /\ (resp.op = "listTokens" /\ resp.status = 200) =>
       \A i \in 1..Len(resp.body.tokens) :
         /\ DOMAIN resp.body.tokens[i] = {"id", "label", "role", "created_at", "last_used_at"}
         /\ Secrets(resp.body.tokens[i]) = {}
  /\ (resp.op = "deleteToken" /\ resp.status = 200) =>
       resp.body.removed.id \notin RawTokens \cup HashValues

\* a token list that shows the bootstrap token and a created token
C9_Witness ==
  /\ resp.op = "listTokens"
  /\ resp.status = 200
  /\ \E i, j \in 1..Len(resp.body.tokens) :
       /\ resp.body.tokens[i].label = BootLabel
       /\ resp.body.tokens[j].label \in Labels

----------------------------------------------------------------------------
(* CLAIMS ABOUT WHAT RETENTION PROTECTS *)

ProtectedTags == {LatestTag, RollbackTag, PreRollbackTag}

\* C11: no build, rollback or retention sweep removes the tag latest,
\* rollback or pre-rollback: a protected tag that resolves before a step
\* resolves after it, and no removal command is issued for it.
C11_ProtectedTagsSurvive ==
  [][\A t \in ProtectedTags :
       /\ t \in DOMAIN images => t \in DOMAIN images'
       /\ <<"rmi", t>> \notin cmds']_vars

\* a sweep removed a tag while latest, rollback and pre-rollback all existed
C11_Witness ==
  /\ Handled(resp, "cleanup")
  /\ resp.body.removed # {}
  /\ ProtectedTags \subseteq DOMAIN images

\* the positions in the log of the successful records that are builds, not
\* rollbacks
BuildPositions(history) ==
  {i \in 1..Len(history) : history[i].success /\ history[i].triggered_by # "rollback"}

\* the tags of the three most recent successful build records of the log
RecentThree(history) ==
  {history[i].tag : i \in {j \in BuildPositions(history) :
                             Cardinality({k \in BuildPositions(history) : k < j}) < 3}}

\* C12: no step removes the tag of one of the three most recent successful
\* non-rollback records of the log as it stands when the sweep runs: such a
\* tag that resolves before the step resolves after it, and no removal
\* command is issued for it.
C12_RecentThreeSurvive ==
  [][\A t \in RecentThree(builds') :
       /\ t \in DOMAIN images => t \in DOMAIN images'
       /\ <<"rmi", t>> \notin cmds']_vars

\* a pipeline run whose sweep removed the tag of the fourth most recent
\* build and left the tags of the three most recent
C12_Witness ==
  /\ Handled(resp, "rebuild")
  /\ resp.body.success
  /\ Cardinality(BuildPositions(builds)) >= 4
  /\ RecentThree(builds) \subseteq DOMAIN images
  /\ \E i \in BuildPositions(builds) : /\ builds[i].tag \notin DOMAIN images
                                        /\ <<"rmi", builds[i].tag>> \in cmds

----------------------------------------------------------------------------
(* CLAIMS ABOUT BUILD-INFO AND THE HISTORY LOG *)

\* C13: build-info asked for right after a successful rollback to a tag T
\* reports as last_build the record the rollback appended; that record has
\* the tag rollback-to-T and is the newest record of the log.
C13_RollbackIsLastBuild ==
  [][(Handled(resp, "rollback") /\ resp.body.success /\ resp'.op = "buildInfo") =>
       /\ resp'.body.last_build = {builds[1]}
       /\ builds[1].tag = RollbackRecordTag(resp.body.rolled_back_to)
       /\ builds[1].success
       /\ builds[1].triggered_by = "rollback"]_vars

\* build-info reports a rollback record, which sits in the log above the
\* record of the build rolled back to
C13_Witness ==
  /\ resp.op = "buildInfo"
  /\ resp.status = 200
  /\ Len(builds) >= 2
  /\ resp.body.last_build = {builds[1]}
  /\ \E i \in 2..Len(builds) : /\ builds[i].success
                                /\ builds[1].tag = RollbackRecordTag(builds[i].tag)

C20_UnknownTagChangesNothing ==
  [][resp'.op = "rollback" =>
     \A tag \in RollbackInputs \ ((DOMAIN images) \cup {""}), retagOk \in BOOLEAN :
       ApiRollback(NoCred, tag, retagOk, {}) =>
         /\ resp'.status = 400
         /\ ~resp'.body.success
         /\ resp'.body.error = TagNotFound(tag)
         /\ images' = images
         /\ builds' = builds
         /\ containers' = containers
         /\ cmds' = {}]_vars

\* such a request was answered while a current image, a pre-rollback tag and
\* a running instance existed
C20_Witness ==
  /\ resp.op = "rollback"
  /\ resp.body.error \in {TagNotFound(UnknownTag)}
                         \cup {TagNotFound(builds[i].tag) : i \in 1..Len(builds)}
  /\ LatestTag \in DOMAIN images
  /\ PreRollbackTag \in DOMAIN images
  /\ images[PreRollbackTag] # images[LatestTag]
  /\ containers # {}
\* a provisioning request for this name, over REST or as app_create
CreateOf(name) ==
  \/ ApiCreateInstance(NoCred, name, "Acme", NoKey, NoKey, "r1", "r1", TRUE, FALSE, TRUE)
  \/ McpAppCreate(NoCred, name, "Acme", NoKey, NoKey, "r1", "r1", TRUE, FALSE, TRUE)

NameRejected(r) == r.body.error \in {"Invalid name format", "Invalid arguments"}

\* C17: a provisioning request passes the name check exactly if its name
\* matches ^[a-z0-9][a-z0-9-]*[a-z0-9]$ or is a single character of [a-z0-9];
\* a request with any other name is rejected as invalid and changes neither
\* the registry, nor the instance directories, nor the containers.
C17_NameAcceptedIffValid ==
  [][\A name \in FleetNames \ {NoName} :
       CreateOf(name) =>
         /\ handleInitNameCheck(name) <=> ~NameRejected(resp')
         /\ ~handleInitNameCheck(name) =>
               (instances' = instances /\ dirs' = dirs /\ containers' = containers
                /\ cmds' = {})]_vars
\* C18: a provisioning run whose start command fails leaves the instance
\* registered with status created, with its record, its stack definition
\* and its secrets file in place; a run whose start command succeeds leaves
\* the registered status running.
C18_FailedStartStaysCreated ==
  [][(Handled(resp', "createInstance") /\ resp'.body.error = NullStr) =>
       LET n == resp'.body.name
       IN /\ n \in DOMAIN instances' /\ n \in DOMAIN dirs'
          /\ instances'[n].status = (IF resp'.body.success THEN "running" ELSE "created")
          /\ instances'[n].api_key = dirs'[n].env.MATRX_SHIP_API_KEY
          /\ instances'[n].db_password = dirs'[n].env.POSTGRES_PASSWORD
          /\ instances'[n].postgres_image = dirs'[n].compose
          /\ <<"up", n>> \in cmds'
          /\ ~(\E c \in cmds' : c[1] \in {"down", "rm"})]_vars

\* a provisioning run whose start command failed
C18_Witness ==
  /\ Handled(resp, "createInstance")
  /\ resp.body.error = NullStr
  /\ ~resp.body.success
  /\ resp.body.name \in DOMAIN instances
  /\ instances[resp.body.name].status = "created"
  /\ resp.body.name \in DOMAIN dirs

\* C19: a provisioning request for a name that has no registry entry while a
\* container of that name exists fails with the container-collision error,
\* which differs from the already-exists error, and writes nothing: no
\* registry entry, no instance directory, and the containers stay as they are.
C19_ContainerCollisionWritesNothing ==
  [][(/\ Handled(resp', "createInstance")
      /\ resp'.body.name \notin DOMAIN instances
      /\ resp'.body.name \in containers) =>
       /\ resp'.body.error = "container exists"
       /\ resp'.via = "rest" => resp'.status = 409
       /\ instances' = instances
       /\ dirs' = dirs
       /\ containers' = containers]_vars

----------------------------------------------------------------------------
(* THE HANDLERS STEP BY STEP, UNDER THE EVENT LOOP *)

\* the mutant yields the event loop at every command, as an awaited exec does
runToCompletion_async(r) == TRUE

\* The handlers of the routes run no await: every container command goes
\* through execSync and every file is read and written synchronously, so a
\* handler that has started keeps the event loop until it returns.  A
\* request that arrives meanwhile waits in its slot.
runToCompletion(r) ==
  \A q \in Slots \ {r} : loop.frames[q].pc \in {"idle", "queued"}

MaxRequests == 4

Frame(r) == loop.frames[r]

\* a request is accepted into a free slot and waits for the event loop
Accept(r, op, name, tag, ok) ==
  /\ Frame(r).pc = "idle"
  /\ loop.served < MaxRequests
  /\ loop' = [loop EXCEPT
                !.frames[r] = [IdleFrame EXCEPT !.pc = "queued", !.op = op,
                                                !.name = name, !.tag = tag, !.ok = ok],
                !.overlap = @ \/ \E q \in Slots \ {r} : Frame(q).pc # "idle",
                !.served = @ + 1]
  /\ UNCHANGED <<tokenVars, fleetVars, buildVars, head, client, now, backups, cmds, resp>>

\* the handler in slot r is at pc and may take its next step
At(r, op, pc) == Frame(r).op = op /\ Frame(r).pc = pc /\ runToCompletion(r)

\* the handler moves on, keeping the event loop
Goto(r, pc, config, check) ==
  loop' = [loop EXCEPT !.frames[r] = [@ EXCEPT !.pc = pc, !.config = config,
                                               !.check = check]]

\* the handler returns: its slot is free again and the response is sent
Return(r, status, body, ledger) ==
  /\ loop' = [loop EXCEPT !.frames[r] = IdleFrame, !.ledger = ledger]
  /\ resp' = Reply(Frame(r).op, "rest", status, authMiddleware(NoCred), NoCred, body)

\* createInstance, lines 288-296: loadDeployments and the two checks
createInstance_check(r) ==
  LET name == Frame(r).name
      config == instances
      nameCheck == dockerPsGrep(containers, name, TRUE)
  IN /\ At(r, "createInstance", "queued")
     /\ cmds' = {<<"ps", name>>}
     /\ IF name \in DOMAIN config
        THEN Return(r, 409, [error |-> "already exists", success |-> FALSE, name |-> name],
                    loop.ledger)
        ELSE IF nameCheck.success /\ nameCheck.output # NoName
        THEN Return(r, 409, [error |-> "container exists", success |-> FALSE, name |-> name],
                    loop.ledger)
        ELSE Goto(r, "register", config, Null) /\ resp' = resp
     /\ UNCHANGED <<tokenVars, fleetVars, buildVars, head, client, now, backups>>

\* createInstance, lines 298-321: the directory and its files are written,
\* the entry is added to the copy of the registry and the copy is saved
createInstance_register(r) ==
  LET name == Frame(r).name
      config == (name :> [FirstRecord("created") EXCEPT !.created_at = now])
                  @@ Frame(r).config
  IN /\ At(r, "createInstance", "register")
     /\ dirs' = (name :> FirstDir) @@ dirs
     /\ instances' = config
     /\ Goto(r, "start", config, Null)
     /\ UNCHANGED <<tokenVars, containers, buildVars, head, client, now, backups, cmds, resp>>

\* createInstance, lines 323-340: docker compose up -d; after a successful
\* start the copy is saved again with status running
createInstance_start(r) ==
  LET name == Frame(r).name
      startOk == Frame(r).ok
      config == [Frame(r).config EXCEPT ![name].status = statusAfterStart(startOk)]
  IN /\ At(r, "createInstance", "start")
     /\ containers' = IF startOk THEN containers \cup {name} ELSE containers
     /\ instances' = IF startOk THEN config ELSE instances
     /\ cmds' = cmds \cup {<<"up", name>>}
     /\ Return(r, 201, [error |-> NullStr, success |-> startOk, name |-> name],
               loop.ledger \cup {name})
     /\ UNCHANGED <<tokenVars, dirs, buildVars, head, client, now, backups>>

\* removeInstance, lines 364-365: loadDeployments and the check
removeInstance_check(r) ==
  LET name == Frame(r).name
      config == instances
  IN /\ At(r, "removeInstance", "queued")
     /\ cmds' = {}
     /\ IF name \notin DOMAIN config
        THEN Return(r, 200, [error |-> "not found", success |-> FALSE, name |-> name],
                    loop.ledger)
        ELSE Goto(r, "down", config, Null) /\ resp' = resp
     /\ UNCHANGED <<tokenVars, fleetVars, buildVars, head, client, now, backups>>

\* removeInstance, lines 367-380: the stack is taken down and the directory
\* is deleted
removeInstance_down(r) ==
  LET name == Frame(r).name
  IN /\ At(r, "removeInstance", "down")
     /\ containers' = containers \ {name}
     /\ dirs' = Remove(dirs, name)
     /\ cmds' = cmds \cup {<<"down", name>>}
     /\ Goto(r, "unregister", Frame(r).config, Null)
     /\ UNCHANGED <<tokenVars, instances, buildVars, head, client, now, backups, resp>>

\* removeInstance, lines 382-384: the entry is deleted from the copy of the
\* registry and the copy is saved
removeInstance_save(r) ==
  LET name == Frame(r).name
  IN /\ At(r, "removeInstance", "unregister")
     /\ instances' = Remove(Frame(r).config, name)
     /\ Return(r, 200, [error |-> NullStr, success |-> TRUE, name |-> name],
               loop.ledger \ {name})
     /\ UNCHANGED <<tokenVars, dirs, containers, buildVars, head, client, now, backups, cmds>>

\* the record of a build started at time t with tag buildTag
buildEntry(buildTag, t, ok, imageId, targets) ==
  [id |-> Len(builds) + 1, tag |-> buildTag, timestamp |-> t,
   git_commit |-> gitCommit(head), image_id |-> IF ok THEN imageId ELSE Null,
   success |-> ok, error |-> IF ok THEN NullStr ELSE "docker build failed",
   duration_ms |-> BuildDuration, triggered_by |-> "api",
   instances_restarted |-> IF ok THEN targets ELSE {}]

\* rebuildInstances, lines 421-435: the registry is loaded, the build tag is
\* generated and latest is tagged rollback
rebuildInstances_tag(r) ==
  /\ At(r, "rebuild", "queued")
  /\ CanBuild(FALSE)
  /\ images' = dockerTag(images, LatestTag, RollbackTag)
  /\ cmds' = {<<"tag", RollbackTag>>}
  /\ loop' = [loop EXCEPT !.frames[r] = [@ EXCEPT !.pc = "build", !.config = instances,
                                                  !.tag = generateBuildTag(now),
                                                  !.check = now]]
  /\ UNCHANGED <<tokenVars, fleetVars, nextImg, builds, head, client, now, backups, resp>>

\* rebuildInstances, lines 438-460: docker build -t latest -t <buildTag>; a
\* failed build is recorded and ends the run
rebuildInstances_build(r) ==
  LET buildTag == Frame(r).tag
      buildOk == Frame(r).ok
  IN /\ At(r, "rebuild", "build")
     /\ nextImg < MaxImg /\ Len(builds) < MaxBuilds
     /\ images' = dockerBuild(images, buildOk, buildTag, nextImg + 1)
     /\ cmds' = cmds \cup {<<"build", buildTag>>}
     /\ IF buildOk
        THEN /\ nextImg' = nextImg + 1
             /\ Goto(r, "restart", Frame(r).config, Frame(r).check)
             /\ UNCHANGED <<builds, resp>>
        ELSE /\ builds' = recordBuild(builds, buildEntry(buildTag, Frame(r).check, FALSE,
                                                         Null, {}))
             /\ Return(r, 500, [success |-> FALSE, step |-> "build",
                                build_tag |-> NullStr], loop.ledger)
             /\ UNCHANGED nextImg
     /\ UNCHANGED <<tokenVars, fleetVars, head, client, now, backups>>

\* rebuildInstances, lines 462-502: the instances are recreated, the build is
\* recorded and the retention sweep runs
rebuildInstances_finish(r) ==
  LET buildTag == Frame(r).tag
      targets == DOMAIN Frame(r).config
      hist == recordBuild(builds, buildEntry(buildTag, Frame(r).check, TRUE,
                                             Resolves(images, LatestTag), targets))
      sweep == cleanupBuildImages(hist, images, now + BuildDuration, TRUE, {})
  IN /\ At(r, "rebuild", "restart")
     /\ Len(builds) < MaxBuilds /\ now + BuildDuration <= MaxClock
     /\ containers' = containers \cup {t \in targets : t \in DOMAIN dirs}
     /\ builds' = hist
     /\ images' = sweep.images
     /\ now' = now + BuildDuration
     /\ UNCHANGED backups
     /\ cmds' = cmds \cup restartCmds(targets) \cup sweep.cmds
     /\ Return(r, 200, [success |-> TRUE, step |-> "done", build_tag |-> buildTag],
               loop.ledger)
     /\ UNCHANGED <<tokenVars, instances, dirs, nextImg, head, client>>

\* rollbackBuild, lines 616-620: the tag is inspected
rollbackBuild_check(r) ==
  LET tag == Frame(r).tag
      check == inspectImage(images, tag)
  IN /\ At(r, "rollback", "queued")
     /\ CanRollback
     /\ cmds' = {}
     /\ IF ~check.success
        THEN Return(r, 400, [success |-> FALSE, error |-> TagNotFound(tag),
                             rolled_back_to |-> NullStr], loop.ledger)
        ELSE Goto(r, "save", EmptyMap, check.output) /\ resp' = resp
     /\ UNCHANGED <<tokenVars, fleetVars, buildVars, head, client, now, backups>>

\* rollbackBuild, lines 622-623: latest is tagged pre-rollback
rollbackBuild_save(r) ==
  /\ At(r, "rollback", "save")
  /\ images' = dockerTag(images, LatestTag, PreRollbackTag)
  /\ cmds' = cmds \cup {<<"tag", PreRollbackTag>>}
  /\ Goto(r, "retag", Frame(r).config, Frame(r).check)
  /\ UNCHANGED <<tokenVars, fleetVars, nextImg, builds, head, client, now, backups, resp>>

\* rollbackBuild, lines 625-627: the target is tagged latest
rollbackBuild_retag(r) ==
  /\ At(r, "rollback", "retag")
  /\ images' = dockerTag(images, Frame(r).tag, LatestTag)
  /\ cmds' = cmds \cup {<<"tag", LatestTag>>}
  /\ Goto(r, "restart", Frame(r).config, Frame(r).check)
  /\ UNCHANGED <<tokenVars, fleetVars, nextImg, builds, head, client, now, backups, resp>>

\* rollbackBuild, lines 629-659: the instances are recreated and the
\* rollback is recorded
rollbackBuild_finish(r) ==
  LET tag == Frame(r).tag
      targets == rollbackTargets(instances)
  IN /\ At(r, "rollback", "restart")
     /\ Len(builds) < MaxBuilds
     /\ containers' = containers \cup {t \in targets : t \in DOMAIN dirs}
     /\ builds' = recordBuild(builds,
                    [id |-> Len(builds) + 1, tag |-> RollbackRecordTag(tag),
                     timestamp |-> now, git_commit |-> "rollback",
                     image_id |-> Frame(r).check, success |-> TRUE, error |-> NullStr,
                     duration_ms |-> 0, triggered_by |-> "rollback",
                     instances_restarted |-> targets])
     /\ cmds' = cmds \cup {<<"recreate", t>> : t \in targets}
     /\ Return(r, 200, [success |-> TRUE, error |-> NullStr, rolled_back_to |-> tag],
               loop.ledger)
     /\ UNCHANGED <<tokenVars, instances, dirs, images, nextImg, head, client, now, backups>>

\* an open-mode server on an empty host, no request pending
InitLoop == InitEmpty(NoCred)

\* provisioning and removal requests, arriving at any time
StoreArrival ==
  \E r \in Slots, name \in {Acme, Beta} :
    \/ \E startOk \in BOOLEAN : Accept(r, "createInstance", name, "", startOk)
    \/ Accept(r, "removeInstance", name, "", TRUE)

StoreStep ==
  \E r \in Slots :
    \/ createInstance_check(r)
    \/ createInstance_register(r)
    \/ createInstance_start(r)
    \/ removeInstance_check(r)
    \/ removeInstance_down(r)
    \/ removeInstance_save(r)

NextStore == StoreArrival \/ StoreStep

SpecStore == InitLoop /\ [][NextStore]_vars

\* build and rollback requests, arriving at any time
PipelineArrival ==
  \E r \in Slots :
    \/ \E buildOk \in BOOLEAN : Accept(r, "rebuild", NoName, "", buildOk)
    \/ \E tag \in (DOMAIN images) \cup {UnknownTag} : Accept(r, "rollback", NoName, tag, TRUE)

PipelineStep ==
  \E r \in Slots :
    \/ rebuildInstances_tag(r)
    \/ rebuildInstances_build(r)
    \/ rebuildInstances_finish(r)
    \/ rollbackBuild_check(r)
    \/ rollbackBuild_save(r)
    \/ rollbackBuild_retag(r)
    \/ rollbackBuild_finish(r)

\* an open-mode server with a provisioned fleet, no request pending
InitPipeline == InitBuild

NextPipeline == PipelineArrival \/ PipelineStep

SpecPipeline == InitPipeline /\ [][NextPipeline]_vars

AllReturned == \A r \in Slots : Frame(r).pc = "idle"

\* C14: provisioning and removal requests that are pending together lose no
\* write: once every request has returned, the registry holds exactly the
\* names that the returned requests leave registered (the ones provisioned
\* and not removed afterwards), each with its directory.
C14_NoLostWrite ==
  AllReturned =>
    /\ DOMAIN instances = loop.ledger
    /\ DOMAIN dirs = loop.ledger

\* two requests were pending together, a provisioning and a removal have
\* returned, and one instance is registered
C14_Witness ==
  /\ AllReturned
  /\ loop.overlap
  /\ loop.served >= 3
  /\ resp.op = "removeInstance" /\ resp.body.success
  /\ loop.ledger # {}

\* the handler is between its safety-net tagging and its tagging of latest
InWindow(f) == f.pc \in {"build", "retag"}

\* C15: while a build or a rollback is between its safety-net tagging and
\* its tagging of latest, no other run changes an image tag, and when the run
\* tags latest its safety-net tag (rollback for a build, pre-rollback for a
\* rollback) resolves to the image latest resolved to just before.
C15_RunsSerialized ==
  [][\A r \in Slots :
       InWindow(loop.frames[r]) =>
         /\ loop'.frames[r] = loop.frames[r] => images' = images
         /\ (loop'.frames[r].pc = "restart" /\ LatestTag \in DOMAIN images) =>
              Resolves(images', IF loop.frames[r].op = "rebuild" THEN RollbackTag
                                ELSE PreRollbackTag)
                = images[LatestTag]]_vars

\* a rollback has tagged latest while a build request was waiting
C15_Witness ==
  \E r \in Slots, q \in Slots :
    /\ Frame(r).op = "rollback" /\ Frame(r).pc = "restart"
    /\ Frame(q).op = "rebuild" /\ Frame(q).pc = "queued"
    /\ Resolves(images, PreRollbackTag) # Resolves(images, LatestTag)
----------------------------------------------------------------------------
(* CLAIMS ABOUT THE RUNS OF THE ROLLBACK MANAGER AND THE BUILD PIPELINE *)

\* C21: a successful rollback issues a restart for every instance that is
\* registered at that time and prepends exactly one record to the history:
\* tag rollback-to-<tag>, duration 0, triggered_by "rollback", success, and
\* instances_restarted equal to the set of all registered names.
C21_RollbackIsFleetWide ==
  [][(Handled(resp', "rollback") /\ resp'.body.success) =>
       /\ {<<"recreate", t>> : t \in DOMAIN instances} \subseteq cmds'
       /\ resp'.body.instances_restarted = DOMAIN instances
       /\ Len(builds') = Len(builds) + 1
       /\ Tail(builds') = builds
       /\ builds'[1].tag = RollbackRecordTag(resp'.body.rolled_back_to)
       /\ builds'[1].duration_ms = 0
       /\ builds'[1].triggered_by = "rollback"
       /\ builds'[1].success
       /\ builds'[1].instances_restarted = DOMAIN instances]_vars

\* a successful rollback on a fleet of two instances, one of which is not
\* running
C21_Witness ==
  /\ Handled(resp, "rollback")
  /\ resp.body.success
  /\ Cardinality(DOMAIN instances) >= 2
  /\ \E t \in DOMAIN instances : instances[t].status # "running"
  /\ builds[1].instances_restarted = DOMAIN instances

\* the run of the pipeline that just ended ran docker build
RanBuild == resp'.op = "rebuild" /\ \E c \in cmds' : c[1] = "build"

C36_RemovedLeavesNoContainer ==
  (Handled(resp, "removeInstance") /\ resp.body.success) =>
    /\ resp.body.name \notin DOMAIN instances
    /\ resp.body.name \notin containers

----------------------------------------------------------------------------
(* SPECIFICATION OF THE OPERATIONS ON A PROVISIONED FLEET *)

\* a name that was never provisioned
Ghost == <<"z", "z">>

\* the names the requests address; the second instance of the fleet is
\* reached by the fleet-wide runs only
OpsNames == {Acme, Ghost}

MaxOpsBuilds == 2

\* the env_vars of an update that rotates the API key
NewKey == [MATRX_SHIP_API_KEY |-> "sk_new"]

\* an open-mode server with a running instance and one whose start failed
InitOps == InitBuild

OpsLifecycle ==
  \E name \in OpsNames, action \in {"start", "stop", "restart"}, ok \in BOOLEAN :
    /\ ~ok => action = "start"
    /\ ApiLifecycle(NoCred, name, action, ok)

OpsBackup == \E name \in OpsNames : ApiBackup(NoCred, name, TRUE)

OpsEnvUpdate ==
  \E name \in OpsNames, env_vars \in {NoVars, NewKey},
     restart \in BOOLEAN :
    /\ env_vars = NoVars => restart
    /\ ApiEnvUpdate(NoCred, name, env_vars, restart)

OpsRemove ==
  \E name \in OpsNames, delete_data \in BOOLEAN :
    ApiRemoveInstance(NoCred, name, delete_data, TRUE)

OpsProvision ==
  ApiCreateInstance(NoCred, Acme, "Acme", NoKey, NoKey, "r1", "r1", TRUE, FALSE, TRUE)

\* builds of the whole fleet or of one target, which may be unknown, with
\* and without a failing restart; restart-only runs
OpsRebuild ==
  \E name \in {NoName, Ghost}, skip_build \in BOOLEAN, restartFail \in {{}, {Acme}} :
    /\ ~skip_build => Len(builds) < MaxOpsBuilds
    /\ name = Ghost => restartFail = {}
    /\ ApiRebuild(NoCred, name, skip_build, TRUE, restartFail, TRUE, {})

OpsRollback ==
  \E tag \in PresentBuildTags \cup {UnknownTag} :
    /\ Len(builds) < MaxOpsBuilds
    /\ ApiRollback(NoCred, tag, TRUE, {})

OpsCleanup == ApiBuildCleanup(NoCred, TRUE, {})

NextOps ==
  \/ OpsLifecycle
  \/ OpsBackup
  \/ OpsEnvUpdate
  \/ OpsRemove
  \/ OpsProvision
  \/ OpsRebuild
  \/ OpsRollback
  \/ OpsCleanup

SpecOps == InitOps /\ [][NextOps]_vars

----------------------------------------------------------------------------
(* CLAIMS ABOUT THE OPERATIONS ON A PROVISIONED FLEET *)

\* a request for an operation on the instance of this name
AddressedTo(name) ==
  \/ \E delete_data \in BOOLEAN : ApiRemoveInstance(NoCred, name, delete_data, TRUE)
  \/ \E action \in {"start", "stop", "restart"}, ok \in BOOLEAN :
       ApiLifecycle(NoCred, name, action, ok)
  \/ ApiBackup(NoCred, name, TRUE)
  \/ \E restart \in BOOLEAN : ApiEnvUpdate(NoCred, name, NewKey, restart)

\* the request ran no container command and left the persisted state alone
NothingDone ==
  /\ cmds' = {}
  /\ instances' = instances /\ dirs' = dirs /\ containers' = containers
  /\ images' = images /\ builds' = builds /\ Unstamped(tokens') = Unstamped(tokens)

\* C22: an operation addressed to an instance name that is absent from the
\* registry (remove, start, stop, restart, backup, env update), a rollback to
\* an image tag that does not exist and a delete of a token id that does not
\* exist are answered 404, run no container command and change no persisted
\* state.
C22_UnknownTargetNotFound ==
  [][/\ \A name \in OpsNames \ DOMAIN instances :
          AddressedTo(name) => (resp'.status = 404 /\ NothingDone)
     /\ \A tag \in {UnknownTag} \ DOMAIN images :
          ApiRollback(NoCred, tag, TRUE, {}) => (resp'.status = 404 /\ NothingDone)
     /\ \A id \in {IdBase} \ {tokens[i].id : i \in 1..Len(tokens)} :
          ApiDeleteToken(NoCred, id) => (resp'.status = 404 /\ NothingDone)]_vars

----------------------------------------------------------------------------
(* SPECIFICATION OF THE ROLE CHECKS OF THE REST ROUTES *)

\* callers with an admin, a deployer and a viewer token
GateCreds == {AdminCred, DeployerCred, ViewerCred}

InitGate == InitRoles

GateInstances ==
  \E cred \in GateCreds :
    \/ ApiCreateInstance(cred, Beta, "Other", NoKey, NoKey, "r2", "r2", TRUE, FALSE, TRUE)
    \/ ApiRemoveInstance(cred, Beta, TRUE, TRUE)

GateLifecycle ==
  \E cred \in GateCreds, action \in {"start", "stop", "restart"} :
    ApiLifecycle(cred, Acme, action, TRUE)

\* one dump at most: the gate is the same for every later one
GateData ==
  \E cred \in GateCreds :
    \/ backups = NoBackups /\ ApiBackup(cred, Acme, TRUE)
    \/ ApiEnvUpdate(cred, Acme, NewKey, TRUE)

\* one build at most, so that a rollback has a tag to name
GateBuilds ==
  \E cred \in GateCreds :
    \/ ApiRebuild(cred, NoName, TRUE, TRUE, {}, TRUE, {})
    \/ builds = <<>> /\ ApiRebuild(cred, NoName, FALSE, TRUE, {}, TRUE, {})
    \/ \E tag \in PresentBuildTags :
         Len(builds) < MaxRoleBuilds /\ ApiRollback(cred, tag, TRUE, {})
    \/ ApiBuildCleanup(cred, TRUE, {})

GateTokens ==
  \E cred \in GateCreds :
    \/ ApiListTokens(cred)
    \/ ApiCreateToken(cred, "", "viewer")
    \/ ApiDeleteToken(cred, IdBase + 3)

NextGate == GateInstances \/ GateLifecycle \/ GateData \/ GateBuilds \/ GateTokens

SpecGate == InitGate /\ [][NextGate]_vars

\* the operations that require the admin role, and those that accept a
\* deployer as well
AdminOnly == {"removeInstance", "stop", "rollback", "cleanup",
              "listTokens", "createToken", "deleteToken"}
AdminOrDeployer == {"createInstance", "start", "restart", "backup", "env", "rebuild"}

AllowedRoles(op) == IF op \in AdminOnly THEN {"admin"} ELSE {"admin", "deployer"}

\* the request of the last step was made over REST by an authenticated caller
GatedRequest(r) ==
  r.via = "rest" /\ r.caller # "" /\ r.op \in AdminOnly \cup AdminOrDeployer

\* a refused request: no container command, registry, directories,
\* containers, images and history as before
Untouched ==
  /\ cmds' = {}
  /\ instances' = instances /\ dirs' = dirs /\ containers' = containers
  /\ images' = images /\ builds' = builds

\* C23 as stated: with authentication enabled a REST request passes the role
\* check exactly if the caller's role is in the allowed set of the endpoint;
\* any other caller is answered 403 and no state changes, the token store
\* included.
C23_ForbiddenChangesNothing ==
  [][GatedRequest(resp') =>
       IF resp'.caller \in AllowedRoles(resp'.op) THEN resp'.status # 403
       ELSE resp'.status = 403 /\ Untouched /\ tokens' = tokens]_vars

\* C23, amended: as above, but a refused request leaves the token store
\* unchanged only up to the last_used_at stamp of the caller's token, which
\* the authentication that precedes the role check sets.
C23_ForbiddenChangesOnlyStamp ==
  [][GatedRequest(resp') =>
       IF resp'.caller \in AllowedRoles(resp'.op) THEN resp'.status # 403
       ELSE resp'.status = 403 /\ Untouched /\ Unstamped(tokens') = Unstamped(tokens)]_vars

\* a deployer was refused on an admin-only route after an admin had run the
\* same kind of request, and the deployer's token carries a stamp
C23_Witness ==
  /\ resp.via = "rest"
  /\ resp.status = 403
  /\ resp.caller = "deployer"
  /\ resp.op \in AdminOnly
  /\ \E i \in 1..Len(tokens) : tokens[i].role = "deployer" /\ tokens[i].last_used_at # Null
  /\ builds # <<>>

\* C25: the status of an InstanceRecord tracks the lifecycle operations:
\* after a successful stop request of a registered instance the status is
\* stopped, after a successful start or restart request it is running (also
\* for an instance that was left at status created by a failed first start).
C25_StatusTracksLifecycle ==
  [][resp'.op \in {"start", "stop", "restart"} =>
       \A name \in DOMAIN instances :
         /\ ApiLifecycle(NoCred, name, "stop", TRUE) =>
              name \in DOMAIN instances' /\ instances'[name].status = "stopped"
         /\ \A action \in {"start", "restart"} :
              ApiLifecycle(NoCred, name, action, TRUE) =>
                name \in DOMAIN instances' /\ instances'[name].status = "running"]_vars

\* the run of the pipeline that just ended built the image and recorded it
BuildSucceeded ==
  Handled(resp', "rebuild") /\ resp'.body.success /\ resp'.body.image_rebuilt

\* the targets of the run whose restart command ran and succeeded
ActuallyRestarted ==
  {t \in DOMAIN resp'.body.restarts : resp'.body.restarts[t] = "ok"}

\* C27: the instances_restarted list of the success BuildRecord of a run
\* holds exactly the instances that the run restarted; it holds no name that
\* is absent from the registry and no instance whose restart command failed.
C27_RestartedListIsExact ==
  [][BuildSucceeded =>
       /\ builds'[1].success
       /\ builds'[1].instances_restarted = ActuallyRestarted
       /\ builds'[1].instances_restarted \subseteq DOMAIN instances]_vars

\* C28: after a successful build the pipeline attempts a restart of every
\* target: a target that is not in the registry gets a "not found" entry and
\* no command, a target whose restart command fails gets a failure entry,
\* every other target is recreated all the same, and the run answers
\* success with the image built and recorded.
C28_RestartFailuresTolerated ==
  [][BuildSucceeded =>
       LET restarts == resp'.body.restarts
           targets == DOMAIN restarts
       IN /\ resp'.status = 200
          /\ builds'[1].success /\ builds'[1].tag = resp'.body.build_tag
          /\ targets = resp'.body.instances_restarted
          /\ \A t \in targets :
               /\ t \notin DOMAIN instances <=> restarts[t] = "not found"
               /\ <<"recreate", t>> \in cmds' <=> t \in DOMAIN instances
               /\ restarts[t] = "ok" => t \in containers'
          /\ \A name \in {NoName, Ghost}, restartFail \in {{}, {Acme}} :
               ApiRebuild(NoCred, name, FALSE, TRUE, restartFail, TRUE, {}) =>
                 /\ targets = IF name = NoName THEN DOMAIN instances ELSE {name}
                 /\ \A t \in targets \cap DOMAIN instances :
                      restarts[t] = IF t \in restartFail \/ t \notin DOMAIN dirs
                                    THEN "failed" ELSE "ok"]_vars

\* a build of the whole fleet in which the restart of one instance failed
\* and another instance was recreated
C28_Witness ==
  /\ Handled(resp, "rebuild") /\ resp.body.success /\ resp.body.image_rebuilt
  /\ \E t, u \in DOMAIN resp.body.restarts :
       /\ resp.body.restarts[t] = "failed"
       /\ resp.body.restarts[u] = "ok" /\ <<"recreate", u>> \in cmds
       /\ u \in containers

\* the operations that may write the registry document
RegistryWriters == {"createInstance", "removeInstance", "start", "stop", "restart"}

\* C29: build, rollback, retention, backup and env-update operations never
\* add, remove or modify an InstanceRecord: the registry changes only in a
\* provisioning, a start, stop or restart operation, or a removal.
C29_RegistryFrame ==
  [][/\ instances' # instances => resp'.op \in RegistryWriters
     /\ resp'.op \in {"rebuild", "rollback", "cleanup", "backup", "env"} =>
          instances' = instances]_vars

\* an env update has just rewritten the environment file of an instance and
\* recreated it, after a build and a rollback had run
C29_Witness ==
  /\ Handled(resp, "env") /\ resp.status = 200
  /\ \E n \in DOMAIN instances \cap DOMAIN dirs :
       /\ <<"recreate", n>> \in cmds
       /\ dirs[n] # FirstDir
  /\ \E i \in 1..Len(builds) : builds[i].triggered_by = "rollback"

\* the run of the pipeline that just ended was a restart-only run
RestartOnly ==
  Handled(resp', "rebuild") /\ resp'.body.success /\ ~resp'.body.image_rebuilt

\* C30: a restart-only run of the pipeline (skip_build set) leaves the image
\* tags unchanged: no safety-net tag, no build tag, no move of latest, no
\* retention sweep, no build record; it only recreates the target instances.
C30_RestartOnlyKeepsImages ==
  [][RestartOnly =>
       /\ images' = images /\ nextImg' = nextImg /\ builds' = builds
       /\ cmds' = {<<"recreate", t>> : t \in DOMAIN resp'.body.restarts \cap DOMAIN instances}
       /\ resp'.body.build_tag = NullStr
       /\ instances' = instances /\ dirs' = dirs
       /\ \A name \in {NoName, Ghost}, restartFail \in {{}, {Acme}} :
            ApiRebuild(NoCred, name, TRUE, TRUE, restartFail, TRUE, {}) =>
              DOMAIN resp'.body.restarts =
                IF name = NoName THEN DOMAIN instances ELSE {name}]_vars

\* a restart-only run of a fleet whose image has a previous version: the run
\* recreated an instance and the tags latest and rollback differ
C30_Witness ==
  /\ Handled(resp, "rebuild") /\ resp.body.success /\ ~resp.body.image_rebuilt
  /\ \E t \in DOMAIN instances : <<"recreate", t>> \in cmds
  /\ {LatestTag, RollbackTag} \subseteq DOMAIN images
  /\ images[LatestTag] # images[RollbackTag]

\* C31 as stated: every run of the pipeline that gets past the build step,
\* with or without skip_build, appends exactly one success record to the
\* build history.
C31_EveryRunRecorded ==
  [][(BuildSucceeded \/ RestartOnly) =>
       /\ Len(builds') = Len(builds) + 1
       /\ builds'[1].success
       /\ Tail(builds') = builds]_vars

\* C31, amended: a run that builds and gets past the build step prepends
\* exactly one success record, with the build tag and the image of the run;
\* a restart-only run (skip_build) appends no record at all.
C31_BuildingRunRecorded ==
  [][/\ BuildSucceeded =>
          /\ Len(builds') = Len(builds) + 1
          /\ Tail(builds') = builds
          /\ builds'[1].success
          /\ builds'[1].tag = resp'.body.build_tag
          /\ builds'[1].image_id = resp'.body.image_id
     /\ RestartOnly => builds' = builds]_vars

\* a restart-only run has just ended after two builds were recorded
C31_Witness ==
  /\ Handled(resp, "rebuild") /\ resp.body.success /\ ~resp.body.image_rebuilt
  /\ Len(builds) = 2
  /\ \A i \in 1..2 : builds[i].success /\ builds[i].triggered_by # "rollback"
  /\ cmds # {}

----------------------------------------------------------------------------
(* SPECIFICATION OF THE BOOT-TIME IMPORT OF THE BOOTSTRAP CREDENTIAL *)

\* the values MCP_BEARER_TOKEN can have at a start of the process: unset, the
\* bootstrap credential, or the raw value of a token issued by the server
BootEnvs == {NoCred, BootRaw} \cup {RawBase + k : k \in 1..nextTok}

InitBoot == InitAuth

BootRestart == \E env \in BootEnvs : Boot(env)

\* tokens are created and deleted by the operator who holds the credential
\* of the environment (or by anyone while authentication is off)
BootCreateToken ==
  \E role \in {"admin", "viewer"} : ApiCreateToken(envToken, "ci", role)

BootDeleteToken == \E id \in TokenIds : ApiDeleteToken(envToken, id)

NextBoot == BootRestart \/ BootCreateToken \/ BootDeleteToken

SpecBoot == InitBoot /\ [][NextBoot]_vars

\* the positions of the records that hold the hash of this credential
HashPositions(store, cred) ==
  {i \in 1..Len(store) : store[i].token_hash = hashToken(cred)}

\* a boot with MCP_BEARER_TOKEN set has just happened
Booted == resp'.op = "boot" /\ envToken' # NoCred

\* every record that was in the store is still there, unchanged and in place
OthersKept == Len(tokens') >= Len(tokens) /\ SubSeq(tokens', 1, Len(tokens)) = tokens

\* C24 as stated: a boot with a bootstrap credential leaves exactly one
\* record with the hash of the credential, and that record has role admin;
\* no boot adds a duplicate or changes or removes another record.
C24_BootImportsOneAdmin ==
  [][Booted =>
       /\ Cardinality(HashPositions(tokens', envToken')) = 1
       /\ \A i \in HashPositions(tokens', envToken') : tokens'[i].role = "admin"
       /\ OthersKept
       /\ Len(tokens') <= Len(tokens) + 1]_vars

\* C24, amended: exactly one record with the hash of the credential; a boot
\* that finds no such record appends one with role admin, a boot that finds
\* one leaves the store as it is, whatever the role of that record.
C24_BootImportsOnce ==
  [][Booted =>
       /\ Cardinality(HashPositions(tokens', envToken')) = 1
       /\ OthersKept
       /\ IF HashPositions(tokens, envToken') = {}
          THEN /\ Len(tokens') = Len(tokens) + 1
               /\ tokens'[Len(tokens')].role = "admin"
               /\ tokens'[Len(tokens')].token_hash = hashToken(envToken')
          ELSE tokens' = tokens]_vars

\* a second boot with the same credential, in a store that holds another
\* token besides the imported one
C24_Witness ==
  /\ resp.op = "boot"
  /\ envToken = BootRaw
  /\ Len(tokens) >= 2
  /\ HashPositions(tokens, BootRaw) # {}
  /\ \E i \in HashPositions(tokens, BootRaw) : tokens[i].last_used_at # Null

\* the store holds a token that may manage tokens and use the admin routes
HasAdmin(store) == \E i \in 1..Len(store) : store[i].role = "admin"

\* C37: with authentication enabled, no creation and no deletion of a token
\* leaves the store without a token of role admin.
C37_AdminTokenRemains ==
  [][(/\ envToken # NoCred
      /\ resp'.op \in {"createToken", "deleteToken"}
      /\ HasAdmin(tokens)) => HasAdmin(tokens')]_vars

----------------------------------------------------------------------------
(* SPECIFICATION OF THE RETENTION SWEEP OVER HISTORIES OF SEVERAL MONTHS *)

\* the start times of the runs of a history (days); the sweeps run at day
\* 100 or 103, so the times fall in each of the four week windows, in each
\* of the three month windows and before all of them
SweepStamps == {0, 5, 15, 25, 45, 50, 65, 75, 80, 88, 95, 97, 99}
SweepClocks == {100, 103}
MaxHistory == 5

\* the run of day 25 was a failed build, the run of day 65 a rollback
FailedStamps == {25}
RollbackStamps == {65}

\* the record that the run started at time ts left in the history
sweepRecord(ts, id) ==
  [id |-> id,
   tag |-> IF ts \in RollbackStamps THEN RollbackRecordTag(RollbackTag)
           ELSE generateBuildTag(ts),
   timestamp |-> ts,
   git_commit |-> IF ts \in RollbackStamps THEN "rollback" ELSE gitCommit(1),
   image_id |-> IF ts \in FailedStamps THEN Null ELSE ts + 1,
   success |-> ts \notin FailedStamps,
   error |-> IF ts \in FailedStamps THEN "docker build failed" ELSE NullStr,
   duration_ms |-> IF ts \in RollbackStamps THEN 0 ELSE BuildDuration,
   triggered_by |-> IF ts \in RollbackStamps THEN "rollback" ELSE "api",
   instances_restarted |-> IF ts \in FailedStamps THEN {} ELSE {Acme, Beta}]

Max(S) == CHOOSE x \in S : \A y \in S : y <= x

\* the history of the runs started at the times S, newest first
RECURSIVE historyOf(_)
historyOf(S) ==
  IF S = {} THEN <<>>
  ELSE <<sweepRecord(Max(S), Cardinality(S))>> \o historyOf(S \ {Max(S)})

\* the tags in the runtime when no earlier sweep has removed one (its
\* listing or its removals failed): the tag of every successful build,
\* latest on the newest build and rollback on the build before it
imagesOf(S) ==
  LET built == S \ (FailedStamps \cup RollbackStamps)
      older == built \ {Max(built)}
  IN IF built = {} THEN EmptyMap
     ELSE [t \in {generateBuildTag(x) : x \in built} |->
             (CHOOSE x \in built : generateBuildTag(x) = t) + 1]
          @@ (LatestTag :> Max(built) + 1)
          @@ (IF older = {} THEN EmptyMap ELSE (RollbackTag :> Max(older) + 1))

InitSweep ==
  \E S \in SUBSET SweepStamps, t \in SweepClocks :
    /\ Cardinality(S) <= MaxHistory
    /\ envToken = NoCred
    /\ tokens = <<>>
    /\ nextTok = 0
    /\ revoked = {}
    /\ instances \in InitFleets
    /\ dirs = [n \in DOMAIN instances |-> FirstDir]
    /\ containers = {n \in DOMAIN instances : instances[n].status = "running"}
    /\ images = imagesOf(S)
    /\ nextImg = 0
    /\ builds = historyOf(S)
    /\ head = 1
    /\ client = IdleClient
    /\ backups = NoBackups
    /\ loop = IdleLoop
    /\ now = t
    /\ cmds = {}
    /\ resp = BootResp

\* a sweep of the drawn history; at most one docker rmi fails
SweepRequest ==
  \E listOk \in BOOLEAN,
     rmFail \in {{}} \cup {{t} : t \in (DOMAIN images) \ {LatestTag, RollbackTag}} :
    /\ resp.op = "boot"
    /\ ~listOk => rmFail = {}
    /\ ApiBuildCleanup(NoCred, listOk, rmFail)

NextSweep == SweepRequest

SpecSweep == InitSweep /\ [][NextSweep]_vars

----------------------------------------------------------------------------
(* CLAIMS ABOUT THE RETENTION SWEEP *)

\* the keep-set of the sweep that has just run (the clock and the history
\* do not change in a sweep)
KeepSet == tagsToKeep(builds, now)

Swept == Handled(resp', "cleanup")

\* what every sweep reports, whether its listing succeeded or not
SweepReport ==
  LET body == resp'.body
  IN /\ body.kept \cap body.removed = {}
     /\ body.total_tags_after = body.total_tags_before - Cardinality(body.removed)
     /\ body.removed = (DOMAIN images) \ (DOMAIN images')
     /\ \A t \in DOMAIN images' : images'[t] = images[t]

\* the sweep attempted every tag outside the keep-set and reports them
SweepComplete ==
  LET body == resp'.body
      doomed == (DOMAIN images) \ KeepSet
  IN /\ cmds' = {<<"rmi", t>> : t \in doomed}
     /\ body.removed = doomed \ body.rm_failed
     /\ body.rm_failed \subseteq DOMAIN images'
     /\ body.kept = KeepSet \cap DOMAIN images
     /\ body.total_tags_before = Cardinality(DOMAIN images)
     /\ body.total_tags_after = Cardinality(DOMAIN images')

\* C32 as stated: a sweep attempts to remove every tag present in the
\* runtime that is not in the keep-set, a failed removal does not stop it,
\* removed lists exactly the tags whose removal succeeded, kept lists exactly
\* the keep-set tags that are present, kept and removed are disjoint and
\* total_tags_after is total_tags_before minus the number of removed tags.
C32_SweepRemovesAllOthers ==
  [][Swept => SweepReport /\ SweepComplete]_vars

\* C32, amended: the above holds for a sweep whose listing of the tags
\* succeeds; a sweep whose listing fails attempts no removal, changes no tag
\* and reports empty lists and zero counts, whatever tags are present.
C32_SweepRemovesAllListed ==
  [][Swept =>
       /\ SweepReport
       /\ IF resp'.body.listed THEN SweepComplete
          ELSE /\ cmds' = {} /\ images' = images
               /\ resp'.body.kept = {} /\ resp'.body.removed = {}
               /\ resp'.body.total_tags_before = 0
               /\ resp'.body.total_tags_after = 0]_vars

\* a sweep in which one removal failed and another succeeded
C32_Witness ==
  /\ Handled(resp, "cleanup") /\ resp.body.listed
  /\ resp.body.rm_failed # {}
  /\ resp.body.removed # {}
  /\ resp.body.kept # {}
  /\ \A t \in resp.body.rm_failed : <<"rmi", t>> \in cmds /\ t \in DOMAIN images

\* the seven periods of the policy: the four weeks and the three months
\* before the sweep, as intervals [from, to) of start times
Periods ==
  {[kind |-> "week", from |-> now - (w + 1) * ONE_WEEK, to |-> now - w * ONE_WEEK] :
     w \in 0..3}
  \cup
  {[kind |-> "month", from |-> now - (m + 1) * ONE_MONTH, to |-> now - m * ONE_MONTH] :
     m \in 0..2}

\* C33: beyond the three fixed tags and the three most recent successful
\* builds the keep-set holds at most one build tag for each of the four
\* weeks and of the three months before the sweep (every extra tag is of
\* one of the periods, no week has two of them, and no month has two of
\* them outside the four weeks), so it never holds more than 13 tags; and
\* every one of those periods in which a successful build was started has a
\* build tag of that period in the keep-set.  The sweep reports the present
\* tags of that keep-set as kept.
C33_KeepSetPerPeriod ==
  [][(Swept /\ resp'.body.listed) =>
       LET keep == KeepSet
           pos == BuildPositions(builds)
           extra == keep \ (ProtectedTags \cup RecentThree(builds))
           made == {i \in pos : builds[i].tag \in extra}
           in(i, p) == builds[i].timestamp >= p.from /\ builds[i].timestamp < p.to
           weeks == {p \in Periods : p.kind = "week"}
       IN /\ resp'.body.kept = keep \cap DOMAIN images
          /\ Cardinality(keep) <= 13
          /\ Cardinality(made) = Cardinality(extra)
          /\ \A i \in made : \E p \in Periods : in(i, p)
          /\ \A p \in Periods :
               Cardinality({i \in made :
                              /\ in(i, p)
                              /\ p.kind = "month" => \A q \in weeks : ~in(i, q)}) <= 1
          /\ \A p \in Periods :
               (\E i \in pos : in(i, p)) =>
                 \E i \in pos : builds[i].tag \in keep /\ in(i, p)]_vars

\* a sweep kept, beyond the three newest builds, the build of an earlier
\* week and the build of an earlier month, while a failed build and a
\* rollback of the history gave no tag to the keep-set
C33_Witness ==
  /\ Handled(resp, "cleanup") /\ resp.body.listed
  /\ Cardinality(BuildPositions(builds)) = 5
  /\ Cardinality(resp.body.kept \ (ProtectedTags \cup RecentThree(builds))) = 2
  /\ \E i \in BuildPositions(builds) :
       /\ builds[i].tag \in resp.body.kept \ RecentThree(builds)
       /\ builds[i].timestamp < now - 4 * ONE_WEEK
  /\ \E i \in BuildPositions(builds) :
       /\ builds[i].tag \in resp.body.kept \ RecentThree(builds)
       /\ builds[i].timestamp >= now - 4 * ONE_WEEK

----------------------------------------------------------------------------
(* SPECIFICATION OF BUILD-INFO OVER A SOURCE THAT MOVES ON *)

InitInfo == InitBuild

\* a successful build of the whole fleet from the source as it stands
InfoBuild == ApiRebuild(NoCred, NoName, FALSE, TRUE, {}, TRUE, {})

\* a successful rollback to a build tag that exists
InfoRollback == \E tag \in PresentBuildTags : ApiRollback(NoCred, tag, TRUE, {})

\* the source moves on between the runs of the pipeline
InfoCommit == SourceCommit

\* build-info is asked for after a build, a rollback or a commit
InfoRequest == resp.op \in {"rebuild", "rollback", "commit"} /\ ApiBuildInfo(NoCred)

NextInfo == InfoBuild \/ InfoRollback \/ InfoCommit \/ InfoRequest

SpecInfo == InitInfo /\ [][NextInfo]_vars

\* the commits that the image under the tag latest was built from,
\* according to the records of the builds that produced it
CurrentImageCommits ==
  {builds[i].git_commit : i \in {j \in BuildPositions(builds) :
                                   /\ LatestTag \in DOMAIN images
                                   /\ builds[j].image_id = images[LatestTag]}}

\* C34: build-info reports pending source changes (has_changes with a
\* non-empty pending_commits) whenever the HEAD of the source differs from
\* the commit the image under latest was built from, after builds and after
\* rollbacks alike.
C34_PendingChangesReported ==
  (resp.op = "buildInfo" /\ resp.status = 200) =>
    \A c \in CurrentImageCommits :
      c # gitCommit(head) =>
        resp.body.has_changes /\ resp.body.pending_commits # {}

----------------------------------------------------------------------------
(* SHIP CLI: the ship command *)

\* the commands of the ship command that change something: the version sent
\* to the server and the three git commands
ShipVersion == "POST /api/ship"
GitAdd == "git add ."
GitCommit == "git commit -m"
GitPush == "git push"

\* the mutant goes on after a step has failed
shipStep_heedless(trace, step, ok) == [trace |-> Append(trace, step), stop |-> FALSE]

\* one step of handleShip inside its try block: the command is run, and
\* the catch block ends the process with exit code 1 when the command failed
shipStep(trace, step, ok) == [trace |-> Append(trace, step), stop |-> ~ok]

\* handleShip(args) in the surroundings in: whether a commit message was
\* given, whether the directory is a git repository with uncommitted
\* changes, whether loadConfig finds a usable configuration, what the server
\* answers to the version ("created", "duplicate", "rejected" for a non-2xx
\* answer, "unreachable"), and the outcomes of git add, commit and push
handleShip(in) ==
  LET exited(trace, code) == [trace |-> trace, exit |-> code]
      probe == <<"git rev-parse --git-dir">>
      status == probe \o <<"git status --porcelain">>
      stats == status \o <<"git rev-parse --short HEAD", "git diff --numstat HEAD~1 HEAD">>
      s1 == shipStep(stats, ShipVersion, in.server \in {"created", "duplicate"})
      s2 == shipStep(s1.trace, GitAdd, in.add)
      s3 == shipStep(s2.trace, GitCommit, in.commit)
      s4 == shipStep(s3.trace, GitPush, in.push)
  IN IF ~in.message THEN exited(<<>>, 1)
     ELSE IF ~in.repo THEN exited(probe, 1)
     ELSE IF ~in.changes THEN exited(status, 0)
     ELSE IF ~in.config THEN exited(status, 1)
     ELSE IF s1.stop THEN exited(s1.trace, 1)
     ELSE IF s2.stop THEN exited(s2.trace, 1)
     ELSE IF s3.stop THEN exited(s3.trace, 1)
     ELSE IF s4.stop THEN exited(s4.trace, 1)
     ELSE exited(s4.trace, 0)

----------------------------------------------------------------------------
(* SPECIFICATION OF THE SHIP COMMAND *)

ShipInputs ==
  [message : BOOLEAN, repo : BOOLEAN, changes : BOOLEAN, config : BOOLEAN,
   server : {"created", "duplicate", "rejected", "unreachable"},
   add : BOOLEAN, commit : BOOLEAN, push : BOOLEAN]

InitShip == InitEmpty(NoCred)

\* a run of the ship command
ShipRun ==
  \E in \in ShipInputs :
    /\ ~client.ship.ran
    /\ in.changes => in.repo
    /\ LET r == handleShip(in)
       IN client' = [client EXCEPT !.ship = [ran |-> TRUE, input |-> in,
                                             trace |-> r.trace, exit |-> r.exit]]
    /\ UNCHANGED <<tokenVars, fleetVars, buildVars, head, now, backups, cmds, resp, loop>>

\* the developer goes back to the prompt
ShipPrompt ==
  /\ client.ship.ran
  /\ client' = [client EXCEPT !.ship = IdleShip]
  /\ UNCHANGED <<tokenVars, fleetVars, buildVars, head, now, backups, cmds, resp, loop>>

NextShip == ShipRun \/ ShipPrompt

SpecShip == InitShip /\ [][NextShip]_vars

----------------------------------------------------------------------------
(* CLAIMS ABOUT THE SHIP COMMAND *)

ShipOrder == <<ShipVersion, GitAdd, GitCommit, GitPush>>

\* the steps of the last run that change something, in the order taken
ShipEffects ==
  SelectSeq(client.ship.trace, LAMBDA c : c \in {ShipVersion, GitAdd, GitCommit, GitPush})

\* C35: the ship command takes its steps in the order version, stage,
\* commit, push and stops at the first step that fails: nothing is staged,
\* committed or pushed unless the server accepted the version, nothing is
\* pushed unless the commit succeeded, and without uncommitted changes or
\* without a git repository no version is sent and no git command that
\* changes something is run.
C35_ShipStepsInOrder ==
  client.ship.ran =>
    LET in == client.ship.input
        n == Len(ShipEffects)
        accepted == in.server \in {"created", "duplicate"}
        oks == <<accepted, in.add, in.commit, in.push>>
    IN /\ ShipEffects = SubSeq(ShipOrder, 1, n)
       /\ n >= 2 => accepted
       /\ n >= 3 => in.add
       /\ n = 4 => in.commit
       /\ (~in.repo \/ ~in.changes) => n = 0
       /\ \A k \in 1..n : k < n => oks[k]
       /\ (n > 0 /\ ~oks[n]) => client.ship.exit = 1
       /\ (n > 0 /\ n < 4) => ~oks[n]
       /\ (n = 4 /\ in.push) => client.ship.exit = 0

\* a run that created the version, staged and committed, and failed to push
C35_Witness ==
  /\ client.ship.ran
  /\ ShipEffects = ShipOrder
  /\ ~client.ship.input.push
  /\ client.ship.exit = 1
----------------------------------------------------------------------------
(* SPECIFICATION OF DATABASE DUMPS AND THE BACKUP LISTING *)

\* the instances a dump is asked for: two of the fleet and an unknown one
BackupNames == {Acme, Beta, Ghost}

InitBackup == InitBuild

\* POST /api/instances/:name/backup, the dump succeeding or failing
BackupDump == \E name \in BackupNames, ok \in BOOLEAN : ApiBackup(NoCred, name, ok)

\* GET /api/instances/:name/backups
BackupList == \E name \in BackupNames : ApiBackups(NoCred, name)

NextBackup ==
  \/ BackupDump
  \/ BackupList

SpecBackup == InitBackup /\ [][NextBackup]_vars

----------------------------------------------------------------------------
(* CLAIMS ABOUT DATABASE DUMPS *)

\* C38: a failed database dump leaves no file in the instance's backup
\* directory: the backup listing returned after a failed backup request
\* equals the listing before it.
C38_FailedDumpLeavesNoFile ==
  [][(resp'.op = "backup" /\ resp'.status = 500)
       => listBackups(backups', resp'.body.name)
            = listBackups(backups, resp'.body.name)]_vars

----------------------------------------------------------------------------
(* ADMIN DASHBOARD: handleDeploy of useAdminActions *)

\* the lines of a response body: `event: <type>`, `data: <json>` (json is
\* whether JSON.parse accepts it, val its phase field) and any other line
EventLine(type) == [kind |-> "event", val |-> type, json |-> FALSE]
DataLine(phase) == [kind |-> "data", val |-> phase, json |-> TRUE]
MalformedData == [kind |-> "data", val |-> NullStr, json |-> FALSE]
OtherLine == [kind |-> "text", val |-> NullStr, json |-> FALSE]

\* the body of `for (const line of lines)`: the effect of one complete line
deployLine(st, line) ==
  IF line.kind = "event" THEN [st EXCEPT !.eventType = line.val]
  ELSE IF line.kind = "data" /\ line.json
  THEN CASE st.eventType = "log" -> [st EXCEPT !.buildLogs = @ + 1]
         [] st.eventType = "phase" ->
              [st EXCEPT !.buildPhase = line.val, !.buildLogs = @ + 1]
         [] st.eventType = "done" ->
              [st EXCEPT !.toasts = Append(@, "success"), !.buildPhase = "done"]
         [] st.eventType = "error" ->
              [st EXCEPT !.toasts = Append(@, "error"), !.buildPhase = "error"]
         [] OTHER -> st
  ELSE st

RECURSIVE deployLines(_, _)
deployLines(st, lines) ==
  IF lines = <<>> THEN st ELSE deployLines(deployLine(st, Head(lines)), Tail(lines))

\* one turn of the read loop: eventType starts empty for every chunk
deployChunk(d, lines) ==
  LET st == deployLines([eventType |-> NullStr, buildPhase |-> d.buildPhase,
                         buildLogs |-> d.buildLogs, toasts |-> d.toasts], lines)
  IN [d EXCEPT !.buildPhase = st.buildPhase, !.buildLogs = st.buildLogs,
               !.toasts = st.toasts]

\* catch and finally: the error toast, the error phase, deploying false
deployCaught(d) ==
  [d EXCEPT !.pc = "finished", !.toasts = Append(@, "error"),
            !.buildPhase = "error", !.deploying = FALSE, !.stream = <<>>]

DeployFrame ==
  UNCHANGED <<tokenVars, fleetVars, buildVars, head, now, backups, cmds, resp, loop>>

\* handleDeploy up to the await of fetch
DeployStart ==
  /\ client.deploy.pc \in {"idle", "finished"}
  /\ Len(client.deploy.toasts) < MaxToasts
  /\ client' = [client EXCEPT !.deploy =
                  [@ EXCEPT !.pc = "fetching", !.deploying = TRUE, !.buildLogs = 0,
                            !.buildPhase = "starting", !.reloaded = FALSE]]
  /\ DeployFrame

\* fetch rejects: the server cannot be reached
DeployFetchRejects ==
  /\ client.deploy.pc = "fetching"
  /\ client' = [client EXCEPT !.deploy = deployCaught(@)]
  /\ DeployFrame

\* fetch resolves with a response of any status; hasBody is whether
\* response.body is a stream, body the chunks it will deliver
DeployResponse(hasBody, body) ==
  /\ client.deploy.pc = "fetching"
  /\ client' = [client EXCEPT !.deploy =
                  IF hasBody THEN [@ EXCEPT !.pc = "reading", !.stream = body]
                  ELSE deployCaught(@)]
  /\ DeployFrame

\* reader.read() resolves with a chunk
DeployRead ==
  /\ client.deploy.pc = "reading"
  /\ client.deploy.stream # <<>>
  /\ client' = [client EXCEPT !.deploy =
                  [deployChunk(@, Head(@.stream)) EXCEPT !.stream = Tail(@)]]
  /\ DeployFrame

\* reader.read() resolves with done: loadAll(), then finally
DeployStreamEnd ==
  /\ client.deploy.pc = "reading"
  /\ client.deploy.stream = <<>>
  /\ client' = [client EXCEPT !.deploy =
                  [@ EXCEPT !.pc = "finished", !.reloaded = TRUE,
                            !.deploying = FALSE]]
  /\ DeployFrame

\* reader.read() rejects: the connection is lost in mid-stream
DeployReadRejects ==
  /\ client.deploy.pc = "reading"
  /\ client' = [client EXCEPT !.deploy = deployCaught(@)]
  /\ DeployFrame

----------------------------------------------------------------------------
(* SPECIFICATION OF A DEPLOY FROM THE DASHBOARD *)

PhaseEvent(phase) == <<EventLine("phase"), DataLine(phase), OtherLine>>
LogEvent == <<EventLine("log"), DataLine(NullStr), OtherLine>>
DoneEvent == <<EventLine("done"), DataLine(NullStr), OtherLine>>
ErrorEvent == <<EventLine("error"), DataLine(NullStr), OtherLine>>

\* the bodies a response delivers, as chunks of complete lines: a stream that
\* ends with done or with error, one that closes after a phase, one whose
\* done event arrives in two chunks or with malformed data, and the body of
\* an answer that is no event stream (401, 403, 404, 500)
DeployBodies ==
  { <<PhaseEvent("building"), LogEvent \o DoneEvent>>,
    <<PhaseEvent("building") \o LogEvent, PhaseEvent("restarting"), DoneEvent>>,
    <<PhaseEvent("building") \o LogEvent, ErrorEvent>>,
    <<PhaseEvent("building"), LogEvent>>,
    <<PhaseEvent("building"), <<EventLine("done")>>, <<DataLine(NullStr), OtherLine>> >>,
    <<PhaseEvent("building"), <<EventLine("done"), MalformedData, OtherLine>> >>,
    << <<OtherLine>> >>,
    <<>> }

InitDeploy == InitEmpty(NoCred)

DeployFetch ==
  \/ DeployFetchRejects
  \/ DeployResponse(FALSE, <<>>)
  \/ \E body \in DeployBodies : DeployResponse(TRUE, body)

NextDeploy ==
  \/ DeployStart
  \/ DeployFetch
  \/ DeployRead
  \/ DeployStreamEnd
  \/ DeployReadRejects

SpecDeploy == InitDeploy /\ [][NextDeploy]_vars

----------------------------------------------------------------------------
(* CLAIMS ABOUT A DEPLOY FROM THE DASHBOARD *)

\* C39: every handleDeploy call eventually finishes with deploying reset to
\* false, and whenever it has finished the build phase is terminal (done or
\* error), for every response the server can give, including a non-stream
\* error response and a stream that closes without a done or error event.
C39_FinishedDeployIsTerminal ==
  client.deploy.pc = "finished"
    => /\ ~client.deploy.deploying
       /\ client.deploy.buildPhase \in {"done", "error"}

====
